---- MODULE Spec2Model ----
(***************************************************************************)
(* vitarx-router: the route registry (RouterRegistry), the navigation      *)
(* engine (RouterCore.navigate / completeNavigation) and the in-memory     *)
(* history adapter (RouterMemory).                                         *)
(*                                                                         *)
(* Representation.  A path is a sequence of segments, the text between two *)
(* slashes; "/" is the empty sequence.  A segment is a record [k, v]:      *)
(* k = "lit" (literal text v), "var" ({v}) or "opt" ({v?}).  A literal     *)
(* with v = "" is the empty text between two adjacent slashes, which       *)
(* formatPath removes.  An index (RouteIndex) is [abs, segs, suffix]: abs  *)
(* says that the string starts with "/", a name is a non-abs index with a  *)
(* single literal segment, suffix is the text from the last "." on.        *)
(* Objects (route specs) are identified by an id; routeObj is the heap.    *)
(* Maps are functions whose domain is the set of keys present; params,     *)
(* query and meta objects are sets of <<key, value>> pairs.                *)
(***************************************************************************)
EXTENDS Integers, Sequences, FiniteSets, TLC

VARIABLES
    routeObj,         \* heap of route objects: id -> Route / RouteNormalized
    namedRoutes,      \* RouterRegistry._namedRoutes: name -> route id
    pathRoutes,       \* RouterRegistry._pathRoutes: case-folded path -> route id
    dynamicRoutes,    \* RouterRegistry._dynamicRoutes: segment count -> records
    parentRoute,      \* RouterRegistry._parentRoute: route id -> parent id
    routes,           \* RouterRegistry._options.routes: the root route list
    regLog,           \* outcome of each addRoute call (observation)
    removal,          \* the last removeRoute call (observation)
    lookup,           \* the last matchRoute call and what it returned (observation)
    missing,          \* RouterOptions.missing is configured
    taskCounter,      \* RouterCore._taskCounter
    currentTaskId,    \* RouterCore._currentTaskId (0 = null)
    pendingReplace,   \* RouterCore._pendingReplace
    pendingPush,      \* RouterCore._pendingPush
    current,          \* RouterCore._currentRouteLocation (the live Location)
    history,          \* RouterMemory._history
    currentIndex,     \* RouterMemory._currentIndex
    pendingGo,        \* RouterMemory._pendingGo (-1 = null)
    tasks,            \* the closure of each navigate() call, by task id
    result,           \* what the promise settled last delivered (observation)
    writes,           \* number of pushHistory/replaceHistory calls (observation)
    marks,            \* number of assignments to _pendingPush/_pendingReplace (observation)
    lastGo,           \* the go() call just made and the engine as it found it (observation)
    viewRender,       \* RouterCore._completeViewRender: the callback installed, and its runs
    lastCall,         \* the direct call just made and the engine as it found it (observation)
    window            \* the browser window of the hash and history adapters: entries, cursor, events

regVars == <<routeObj, namedRoutes, pathRoutes, dynamicRoutes, parentRoute, routes, regLog,
             removal, lookup>>
navVars == <<missing, taskCounter, currentTaskId, pendingReplace, pendingPush, current,
             history, currentIndex, pendingGo, tasks, result, writes, marks, lastGo>>
viewVars == <<viewRender, lastCall>>
navVarsButGo == <<missing, taskCounter, currentTaskId, pendingReplace, pendingPush, current,
                  history, currentIndex, pendingGo, tasks, result, writes, marks>>
hostVars == <<window>>
vars == <<regVars, navVars, viewVars, hostVars>>

(***************************************************************************)
(* Bounds                                                                  *)
(***************************************************************************)
MaxTasks == 2        \* navigate() calls in one behaviour
MaxRedirects == 1    \* guard-issued redirects followed by one navigation
MaxStack == 3        \* nested calls of performNavigation the call stack holds
MaxAdds == 2         \* addRoute calls in one behaviour of the registry
MaxRemoves == 1      \* removeRoute calls in one behaviour of the registry
MaxRenders == 2      \* calls of one render callback by the views
MaxCalls == 1        \* direct calls of completeNavigation, updateQuery, updateHash
MaxMoves == 2        \* steps back and forward the user takes in the browser
MaxEdits == 1        \* fragments the user types into the address

(***************************************************************************)
(* Strings and paths                                                       *)
(***************************************************************************)
L(s) == [k |-> "lit", v |-> s]
V(s) == [k |-> "var", v |-> s]
O(s) == [k |-> "opt", v |-> s]

\* String.prototype.toLowerCase on the texts the model uses
ToLowerCase(s) ==
    CASE s = "A" -> "a"
      [] s = "U" -> "u"
      [] s = "B" -> "b"
      [] s = "Q" -> "q"
      [] s = "K" -> "k"
      [] OTHER -> s

LowerSegs(segs) == [i \in DOMAIN segs |-> [segs[i] EXCEPT !.v = ToLowerCase(@)]]

IsEmptySeg(s) == s.k = "lit" /\ s.v = ""

\* the variable names the route table uses
VarNameSet == {"id", "k", "tab", "t", "x", "b", "c", "z"}

\* the text of a segment of a path template: v, {v} or {v?}
TextOfSeg(s) ==
    CASE s.k = "lit" -> s.v
      [] s.k = "var" -> "{" \o s.v \o "}"
      [] OTHER -> "{" \o s.v \o "?}"

\* the segment a text between two slashes stands for
SegOfText(t) ==
    IF \E n \in VarNameSet : t = TextOfSeg(V(n))
    THEN V(CHOOSE n \in VarNameSet : t = TextOfSeg(V(n)))
    ELSE IF \E n \in VarNameSet : t = TextOfSeg(O(n))
    THEN O(CHOOSE n \in VarNameSet : t = TextOfSeg(O(n)))
    ELSE L(t)

\* a route's path (a string) as the texts between its slashes
PathTexts(segs) == [i \in DOMAIN segs |-> TextOfSeg(segs[i])]

\* formatPath: one leading slash, repeated slashes collapsed, trailing slash removed
formatPath(segs) == SelectSeq(segs, LAMBDA s : ~IsEmptySeg(s))

\* isVariablePath: /\{[^}]+}/
isVariablePath(segs) == \E i \in DOMAIN segs : segs[i].k \in {"var", "opt"}

\* optionalVariableCount: number of {name?}
optionalVariableCount(segs) == Cardinality({i \in DOMAIN segs : segs[i].k = "opt"})

\* the texts with a "." in them, what stands before their last "." and what
\* stands from it on
HasDot(text) == text \in {"v.1"}
DotStem(text) == IF text = "v.1" THEN "v" ELSE text
DotExt(text) == IF text = "v.1" THEN ".1" ELSE ""

\* no removeRoute call, no matchRoute call yet
NoRemoval ==
    [count |-> 0, set |-> FALSE, index |-> [abs |-> FALSE, segs |-> <<"">>, suffix |-> ""],
     route |-> 0, family |-> {}, routes |-> <<>>]
NoLookup ==
    [set |-> FALSE, kind |-> "", id |-> "", index |-> [abs |-> FALSE, segs |-> <<"">>, suffix |-> ""],
     found |-> FALSE, route |-> 0, hasParams |-> FALSE, params |-> {}]

\* getPathSuffix of an index: the text from the last "." on, "" if none
getPathSuffix(index) == index.suffix

\* splitPathAndSuffix: the path without its suffix, and the suffix without "."
splitPathAndSuffix(index) == [path |-> index.segs, suffix |-> index.suffix]

\* A suffix policy (RouterOptions.suffix): "*" is [kind |-> "any"], false is
\* [kind |-> "exact"], a string or a list is [kind |-> "list"] with the suffixes
\* in allowed; a route that sets none has [kind |-> "unset"].
AnySuffix == [kind |-> "any", allowed |-> {}]
ExactOnly == [kind |-> "exact", allowed |-> {}]
UnsetSuffix == [kind |-> "unset", allowed |-> {}]
OneOf(suffixes) == [kind |-> "list", allowed |-> suffixes]

\* validateSuffix(suffix, allowSuffix, inputPath, routePath); the paths are
\* [segs, suffix] records that stand for the strings compared with ===
validateSuffix(suffix, allowSuffix, inputPath, routePath) ==
    CASE allowSuffix.kind = "any" -> TRUE
      [] allowSuffix.kind = "exact" -> inputPath = routePath
      [] OTHER -> suffix \in allowSuffix.allowed

\* F applied to the value of v, which is computed once
With(v, F(_)) == CHOOSE r \in {F(x) : x \in {v}} : TRUE

\* Map helpers
Put(m, key, val) == [x \in (DOMAIN m) \cup {key} |-> IF x = key THEN val ELSE m[x]]
Has(m, key) == key \in DOMAIN m
EmptyMap == [x \in {} |-> 0]

\* value of key in a set of <<key, value>> pairs; "undefined" when absent
Lookup(pairs, key) ==
    IF \E p \in pairs : p[1] = key
    THEN (CHOOSE p \in pairs : p[1] = key)[2]
    ELSE "undefined"

\* Object.assign(a, b) on sets of pairs
Assign(a, b) == {p \in a : ~\E q \in b : q[1] = p[1]} \cup b

(***************************************************************************)
(* Dynamic patterns (createDynamicPattern) as token sequences.  The text   *)
(* matched is a sequence of tokens, "/" or the text of one segment.        *)
(***************************************************************************)
strict == FALSE      \* RouterOptions.strict (default)

\* the words the default pattern /[\w.]+/ matches entirely
IsWord(s) == s \notin {"", "/", "x-y"} /\ SegOfText(s).k = "lit"

\* the regex source built from a path: "\/" and one item per segment, then "\/?"
RegexOf(segs) ==
    LET item(s) == CASE s.k = "lit" -> [t |-> "lit", v |-> s.v]
                     [] s.k = "var" -> [t |-> "var", v |-> s.v]
                     [] OTHER -> [t |-> "opt", v |-> s.v]
        F[i \in 0..Len(segs)] ==
            IF i = 0 THEN <<>>
            ELSE F[i - 1] \o <<[t |-> "slash", v |-> "/"], item(segs[i])>>
    IN  F[Len(segs)] \o <<[t |-> "oslash", v |-> "/"]>>

\* the names of the segments of kind k, in path order
VarNames(segs, k) ==
    LET picked == SelectSeq(segs, LAMBDA s : s.k = k)
    IN  [i \in DOMAIN picked |-> picked[i].v]

\* keys appended to a pattern object (a sequence of keys, in insertion order)
AddKeys(pattern, names) ==
    pattern \o SelectSeq(names, LAMBDA n : ~\E i \in DOMAIN pattern : pattern[i] = n)

\* createDynamicPattern: {regex, length, optional}; err when a mandatory
\* variable is processed after an optional one was counted.  Every {x?} is
\* replaced (first .replace) before any {x} (second .replace), and each
\* variable processed gets its key in the pattern object.
createDynamicPattern(segs, pattern) ==
    LET opts == VarNames(segs, "opt")
        mands == VarNames(segs, "var")
        err == Len(opts) > 0 /\ Len(mands) > 0
    IN  [err |-> err,
         pattern |-> AddKeys(pattern, opts \o (IF err THEN SubSeq(mands, 1, 1) ELSE mands)),
         regex |-> RegexOf(segs),
         length |-> IF Len(segs) = 0 THEN 1 ELSE Len(segs),
         optional |-> Len(opts)]

\* the tokens of `${shortPath}/`
NormalizedTokens(segs) ==
    LET F[i \in 0..Len(segs)] ==
            IF i = 0 THEN <<>> ELSE F[i - 1] \o <<"/", segs[i]>>
    IN  (IF Len(segs) = 0 THEN <<"/">> ELSE F[Len(segs)]) \o <<"/">>

NoMatch == [ok |-> FALSE, caps |-> <<>>]

\* RegExp.prototype.exec of ^regex$ on the tokens s: backtracking, greedy;
\* caps holds one entry per capturing group, "undefined" for a group that
\* did not take part
RECURSIVE RegexExec(_, _)
RegexExec(p, s) ==
    IF p = <<>> THEN [ok |-> s = <<>>, caps |-> <<>>]
    ELSE
      LET h == Head(p)
          textEq(a, b) == IF strict THEN a = b ELSE ToLowerCase(a) = ToLowerCase(b)
          word == s # <<>> /\ Head(s) # "/" /\ IsWord(Head(s))
          taken == With(RegexExec(Tail(p), Tail(s)),
                        LAMBDA r : [ok |-> r.ok, caps |-> <<Head(s)>> \o r.caps])
          skipped == With(RegexExec(Tail(p), s),
                          LAMBDA r : [ok |-> r.ok, caps |-> <<"undefined">> \o r.caps])
      IN  CASE h.t = "slash" ->
                 IF s # <<>> /\ Head(s) = "/" THEN RegexExec(Tail(p), Tail(s)) ELSE NoMatch
            [] h.t = "lit" ->
                 IF s # <<>> /\ Head(s) # "/" /\ textEq(Head(s), h.v)
                 THEN RegexExec(Tail(p), Tail(s)) ELSE NoMatch
            [] h.t = "var" -> IF word THEN taken ELSE NoMatch
            [] h.t = "opt" ->
                 IF word THEN With(taken, LAMBDA r : IF r.ok THEN r ELSE skipped) ELSE skipped
            [] OTHER ->
                 IF s # <<>> /\ Head(s) = "/"
                 THEN With(RegexExec(Tail(p), Tail(s)),
                           LAMBDA r : IF r.ok THEN r ELSE RegexExec(Tail(p), s))
                 ELSE RegexExec(Tail(p), s)

(***************************************************************************)
(* Route specs.  RouteSpecs is the heap of the caller's route objects      *)
(* before registration; normalizeRoute rewrites an object in place.        *)
(***************************************************************************)
NoRedirect == [kind |-> "none", index |-> [abs |-> TRUE, segs |-> <<>>, suffix |-> ""]]
PathIndex(segs) == [abs |-> TRUE, segs |-> segs, suffix |-> ""]
SuffixIndex(segs, suffix) == [abs |-> TRUE, segs |-> segs, suffix |-> suffix]
NameIndex(name) == [abs |-> FALSE, segs |-> <<name>>, suffix |-> ""]

\* the index a path string is, given as the texts between its slashes: the
\* string is cut at its last ".", wherever that stands (String.lastIndexOf)
RECURSIVE JoinFrom(_, _)
JoinFrom(texts, i) ==
    IF i > Len(texts) THEN "" ELSE "/" \o texts[i] \o JoinFrom(texts, i + 1)

IndexOf(texts) ==
    LET dotted == {i \in DOMAIN texts : HasDot(texts[i])}
        last == CHOOSE i \in dotted : \A j \in dotted : j <= i
    IN  IF dotted = {} THEN PathIndex(texts)
        ELSE SuffixIndex(SubSeq(texts, 1, last - 1) \o <<DotStem(texts[last])>>,
                         DotExt(texts[last]) \o JoinFrom(texts, last + 1))

RouteSpec(name, path, widget, children, redirect) ==
    [name |-> name, path |-> path, widget |-> widget, children |-> children,
     redirect |-> redirect, suffix |-> UnsetSuffix, beforeEnter |-> "", afterEnter |-> "",
     pattern |-> <<>>,
     meta |-> IF name = "" THEN {} ELSE {<<"title", name>>}]

RouteSpecs ==
    <<  \* the route table the engine is constructed with
        RouteSpec("home", <<>>, TRUE, <<>>, NoRedirect),
        RouteSpec("a", <<L(""), L("a")>>, TRUE, <<>>, NoRedirect),
        RouteSpec("user", <<L("u"), V("id")>>, TRUE, <<>>, NoRedirect),
        RouteSpec("r", <<L("r")>>, TRUE, <<>>, [kind |-> "static", index |-> PathIndex(<<"a">>)]),
        RouteSpec("f", <<L("f")>>, TRUE, <<>>, [kind |-> "function", index |-> PathIndex(<<"b">>)]),
        RouteSpec("b", <<L("b")>>, TRUE, <<>>, NoRedirect),
        \* specs handed to addRoute later
        RouteSpec("home", <<L("x")>>, TRUE, <<>>, NoRedirect),       \* 7: name taken
        RouteSpec("n8", <<L("A")>>, TRUE, <<>>, NoRedirect),         \* 8: path taken (case-folded)
        RouteSpec("g", <<L("g")>>, TRUE, <<10>>, NoRedirect),        \* 9: its child collides
        RouteSpec("user", <<L("c")>>, TRUE, <<>>, NoRedirect),       \* 10: child of 9, name taken
        RouteSpec("d", <<L("d")>>, TRUE, <<>>, NoRedirect),          \* 11: no collision
        RouteSpec("n12", <<L("U"), V("id")>>, TRUE, <<>>, NoRedirect),\* 12: dynamic path taken
        RouteSpec("e", <<L("e"), V("k")>>, TRUE, <<>>, NoRedirect),   \* 13: dynamic, no collision
        RouteSpec("", <<L("h")>>, FALSE, <<15>>, NoRedirect),        \* 14: group without widget
        RouteSpec("a", <<L("i")>>, TRUE, <<>>, NoRedirect),          \* 15: child of 14, name taken
        \* two routes of the initial table that redirect to each other
        RouteSpec("p", <<L("p")>>, TRUE, <<>>, [kind |-> "static", index |-> PathIndex(<<"y">>)]),
        RouteSpec("y", <<L("y")>>, TRUE, <<>>, [kind |-> "static", index |-> PathIndex(<<"p">>)]),
        \* more specs handed to addRoute
        RouteSpec("ut", <<L("u"), V("id"), O("tab")>>, TRUE, <<>>, NoRedirect), \* 18: /u/{id}/{tab?}
        RouteSpec("mo", <<L("m"), O("t"), V("x")>>, TRUE, <<>>, NoRedirect),    \* 19: /m/{t?}/{x}
        RouteSpec("opt", <<L("o"), O("b"), O("c")>>, TRUE, <<>>, NoRedirect),   \* 20: /o/{b?}/{c?}
        RouteSpec("items", <<L("items"), V("id")>>, TRUE, <<>>, NoRedirect),    \* 21: /items/{id}
        RouteSpec("up", <<L("U")>>, TRUE, <<>>, NoRedirect),                    \* 22: /U
        [RouteSpec("ex", <<L("Q")>>, TRUE, <<>>, NoRedirect)
            EXCEPT !.suffix = ExactOnly],                                       \* 23: /Q, suffix: false
        RouteSpec("grp", <<L("s")>>, TRUE, <<25>>, NoRedirect),                 \* 24: /s with a child
        RouteSpec("kid", <<L("k"), O("z")>>, TRUE, <<>>, NoRedirect),           \* 25: /s/k/{z?}
        \* a nested table: a layout with guards and two pages, and a group
        \* without a widget
        [RouteSpec("shell", <<L("sh")>>, TRUE, <<27, 28>>, NoRedirect)
            EXCEPT !.beforeEnter = "shellBefore", !.afterEnter = "shellAfter"], \* 26: /sh
        RouteSpec("page", <<L("pg")>>, TRUE, <<>>, NoRedirect),                 \* 27: /sh/pg
        [RouteSpec("own", <<L("own")>>, TRUE, <<>>, NoRedirect)
            EXCEPT !.beforeEnter = "ownBefore"],                                \* 28: /sh/own
        RouteSpec("bare", <<L("gr")>>, FALSE, <<30>>, NoRedirect),              \* 29: /gr
        RouteSpec("leaf", <<L("leaf")>>, TRUE, <<>>, NoRedirect),               \* 30: /gr/leaf
        \* static routes that share their shape with a dynamic route or are
        \* the index of a directory
        RouteSpec("unew", <<L("u"), L("new")>>, TRUE, <<>>, NoRedirect),        \* 31: /u/new
        RouteSpec("dindex", <<L("d"), L("index")>>, TRUE, <<>>, NoRedirect),    \* 32: /d/index
        RouteSpec("xindex", <<L("items"), L("x"), L("index")>>, TRUE, <<>>,
                  NoRedirect),                                                  \* 33: /items/x/index
        \* dynamic routes of the shape of /u/{id}
        RouteSpec("uk", <<L("u"), V("k")>>, TRUE, <<>>, NoRedirect),            \* 34: /u/{k}
        RouteSpec("uz", <<L("u"), V("x")>>, TRUE, <<>>, NoRedirect),            \* 35: /u/{x}
        \* dynamic routes whose pattern object the caller supplied: {c:, b:},
        \* keys in another order than the path, and {z:, k:}, a key too many
        [RouteSpec("pair", <<L("v"), V("b"), V("c")>>, TRUE, <<>>, NoRedirect)
            EXCEPT !.pattern = <<"c", "b">>],                                   \* 36: /v/{b}/{c}
        [RouteSpec("extra", <<L("w"), V("k")>>, TRUE, <<>>, NoRedirect)
            EXCEPT !.pattern = <<"z", "k">>],                                   \* 37: /w/{k}
        \* a dynamic route with suffix: false, a static one with a list
        [RouteSpec("nk", <<L("n"), V("k")>>, TRUE, <<>>, NoRedirect)
            EXCEPT !.suffix = ExactOnly],                                       \* 38: /n/{k}
        [RouteSpec("hs", <<L("hs")>>, TRUE, <<>>, NoRedirect)
            EXCEPT !.suffix = OneOf({".html", ".htm"})]                         \* 39: /hs
    >>

RouteIds == DOMAIN RouteSpecs

(***************************************************************************)
(* RouterRegistry.  The operators work on a registry value                 *)
(* [objs, named, paths, dyn, parent, routes, err]; err names the exception *)
(* thrown ("" = none) and stops everything after it, as a throw does.      *)
(***************************************************************************)
GlobalSuffix == AnySuffix    \* RouterOptions.suffix (default '*')

isRouteGroup(route) == Len(route.children) > 0

\* normalizeRoute(route, group, suffix), with normalizeRouteWidget
normalizeRoute(R, id, group) ==
    LET route == R.objs[id]
        path == formatPath(IF group # 0 THEN R.objs[group].path \o route.path ELSE route.path)
        suffix == IF route.suffix.kind # "unset" THEN route.suffix
                  ELSE IF group # 0 /\ R.objs[group].suffix.kind # "unset"
                       THEN R.objs[group].suffix ELSE GlobalSuffix
        beforeEnter == IF route.beforeEnter # "" THEN route.beforeEnter
                       ELSE IF group # 0 THEN R.objs[group].beforeEnter ELSE ""
        afterEnter == IF route.afterEnter # "" THEN route.afterEnter
                      ELSE IF group # 0 THEN R.objs[group].afterEnter ELSE ""
        pathSet == [R EXCEPT !.objs[id].path = path]
    IN  IF ~route.widget /\ ~isRouteGroup(route)
        THEN [pathSet EXCEPT !.err = "widget"]
        ELSE [pathSet EXCEPT !.objs[id].suffix = suffix,
                             !.objs[id].afterEnter = afterEnter,
                             !.objs[id].beforeEnter = beforeEnter]

\* strictPath
strictPath(segs) == IF strict THEN segs ELSE LowerSegs(segs)

\* recordDynamicRoute
recordDynamicRoute(R, id) ==
  With(createDynamicPattern(R.objs[id].path, R.objs[id].pattern), LAMBDA pat :
    LET keyed == [R EXCEPT !.objs[id].pattern = pat.pattern]
        rec == [regex |-> pat.regex, route |-> id]
        lens == {pat.length - i : i \in 0..pat.optional}
        addToLengthMap(dyn) ==
            [len \in (DOMAIN dyn) \cup lens |->
                IF len \in lens
                THEN (IF len \in DOMAIN dyn THEN dyn[len] ELSE <<>>) \o <<rec>>
                ELSE dyn[len]]
    IN  IF pat.err THEN [keyed EXCEPT !.err = "optional_order"]
        ELSE [keyed EXCEPT !.dyn = addToLengthMap(@)])

\* recordRoute
recordRoute(R, id) ==
  With(R.objs[id], LAMBDA route :
  With(IF route.name # "" THEN [R EXCEPT !.named = Put(@, route.name, id)] ELSE R,
       LAMBDA named :
  With(strictPath(route.path), LAMBDA path :
    IF route.name # "" /\ Has(R.named, route.name)
    THEN [R EXCEPT !.err = "duplicate_name"]
    ELSE IF Has(named.paths, path)
    THEN [named EXCEPT !.err = "duplicate_path"]
    ELSE With([named EXCEPT !.paths = Put(@, path, id)], LAMBDA pathed :
              IF isVariablePath(route.path)
              THEN recordDynamicRoute(pathed, id)
              ELSE pathed))))

\* registerRoute(route, group); group = 0 when there is none
RECURSIVE registerRoute(_, _, _)
registerRoute(R, id, group) ==
  With(normalizeRoute(R, id, group), LAMBDA norm :
  With(IF group # 0 THEN [norm EXCEPT !.parent = Put(@, id, group)] ELSE norm, LAMBDA linked :
    LET route == linked.objs[id]
        RECURSIVE kids(_, _)
        kids(S, i) ==
            IF S.err # "" \/ i > Len(route.children) THEN S
            ELSE With(registerRoute(S, route.children[i], id), LAMBDA T : kids(T, i + 1))
    IN  IF norm.err # "" THEN norm
        ELSE IF isRouteGroup(route)
        THEN With(IF route.widget THEN recordRoute(linked, id) ELSE linked, LAMBDA own :
             With(kids(own, 1), LAMBDA grown :
                  IF grown.err = "" /\ route.redirect.kind = "none"
                  THEN [grown EXCEPT !.objs[id].redirect.kind = "synthetic"]
                  ELSE grown))
        ELSE recordRoute(linked, id)))

\* setupRoutes
RECURSIVE setupRoutes(_, _)
setupRoutes(R, ids) ==
    IF ids = <<>> \/ R.err # "" THEN R
    ELSE With(registerRoute(R, Head(ids), 0), LAMBDA S : setupRoutes(S, Tail(ids)))

\* Map.prototype.delete
Del(m, key) == [x \in (DOMAIN m) \ {key} |-> m[x]]

\* the sequence without its first element that satisfies Test (indexOf, splice)
RemoveFirst(seq, Test(_)) ==
    LET hits == {i \in DOMAIN seq : Test(seq[i])}
        first == CHOOSE i \in hits : \A j \in hits : i <= j
    IN  IF hits = {} THEN seq
        ELSE SubSeq(seq, 1, first - 1) \o SubSeq(seq, first + 1, Len(seq))

\* removeDynamicRoute(path), filling the hole from the end of the bucket
removeDynamicRoute_Reordered(R, path) ==
    LET length == Len(path)
        count == optionalVariableCount(path)
        keys == {length - i : i \in 0..count}
        removeRouteFromRecords(records) ==
            With(RemoveFirst(records, LAMBDA rec : R.objs[rec.route].path = path),
                 LAMBDA rest : [i \in DOMAIN rest |-> rest[Len(rest) + 1 - i]])
    IN  IF ~isVariablePath(path) THEN R
        ELSE [R EXCEPT !.dyn = [len \in DOMAIN @ |->
                                   IF len \in keys THEN removeRouteFromRecords(@[len])
                                   ELSE @[len]]]

\* removeDynamicRoute(path)
removeDynamicRoute(R, path) ==
    LET length == Len(path)
        count == optionalVariableCount(path)
        keys == {length - i : i \in 0..count}
        removeRouteFromRecords(records) ==
            RemoveFirst(records, LAMBDA rec : R.objs[rec.route].path = path)
    IN  IF ~isVariablePath(path) THEN R
        ELSE [R EXCEPT !.dyn = [len \in DOMAIN @ |->
                                   IF len \in keys THEN removeRouteFromRecords(@[len])
                                   ELSE @[len]]]

\* removedFromRoutes(route)
removedFromRoutes(R, id) ==
    IF Has(R.parent, id)
    THEN [R EXCEPT !.objs[R.parent[id]].children = RemoveFirst(@, LAMBDA c : c = id)]
    ELSE [R EXCEPT !.routes = RemoveFirst(@, LAMBDA c : c = id)]

EmptyRegistry ==
    [objs |-> RouteSpecs, named |-> EmptyMap, paths |-> EmptyMap, dyn |-> EmptyMap,
     parent |-> EmptyMap, routes |-> <<>>, err |-> ""]

(***************************************************************************)
(* Matching                                                                *)
(***************************************************************************)
AsLits(texts) == [i \in DOMAIN texts |-> SegOfText(texts[i])]
NoRoute == [found |-> FALSE, route |-> 0, hasParams |-> FALSE, params |-> {}]
Found(id) == [found |-> TRUE, route |-> id, hasParams |-> FALSE, params |-> {}]

\* a lookup that tries the dynamic bucket before the static map
matchRoute_DynamicFirst(R, index) ==
  With(SelectSeq(index.segs, LAMBDA t : t # ""), LAMBDA texts :
  With(IF strict THEN texts ELSE [i \in DOMAIN texts |-> ToLowerCase(texts[i])],
       LAMBDA formattedSegs :
  With(AsLits(formattedSegs), LAMBDA shortPath :
    LET suffix == IF strict THEN index.suffix ELSE ToLowerCase(index.suffix)
        formattedPath == [segs |-> shortPath, suffix |-> suffix]
        asPath(segs) == [segs |-> segs, suffix |-> ""]
        staticHit == Has(R.paths, shortPath)
                     /\ validateSuffix(suffix, R.objs[R.paths[shortPath]].suffix,
                                       formattedPath, asPath(R.objs[R.paths[shortPath]].path))
        segmentCount == Len(shortPath)
        candidates == IF Has(R.dyn, segmentCount) THEN R.dyn[segmentCount] ELSE <<>>
        normalizedPath == NormalizedTokens(formattedSegs)
        accepts(c) == RegexExec(c.regex, normalizedPath).ok
                      /\ validateSuffix(suffix, R.objs[c.route].suffix, formattedPath, formattedPath)
        hits == SelectSeq(candidates, accepts)
        paramsOf(c) ==
            LET caps == RegexExec(c.regex, normalizedPath).caps
                keys == R.objs[c.route].pattern
            IN  {<<keys[i], IF i <= Len(caps) THEN caps[i] ELSE "undefined">> : i \in DOMAIN keys}
        endsWithIndex == Len(shortPath) > 0 /\ shortPath[Len(shortPath)] = L("index")
        indexKey == shortPath \o <<L("index")>>
        indexHit(key) == Has(R.paths, key)
                         /\ validateSuffix(suffix, R.objs[R.paths[key]].suffix,
                                           formattedPath, asPath(R.objs[R.paths[key]].path))
        implicitIndex ==
            IF suffix = "" /\ ~endsWithIndex
            THEN (IF indexHit(indexKey) THEN Found(R.paths[indexKey]) ELSE NoRoute)
            ELSE IF shortPath = <<L("index")>>
            THEN (IF indexHit(<<>>) THEN Found(R.paths[<<>>]) ELSE NoRoute)
            ELSE NoRoute
    IN  With(hits, LAMBDA found :
            IF found # <<>>
            THEN [found |-> TRUE, route |-> found[1].route, hasParams |-> TRUE,
                  params |-> paramsOf(found[1])]
            ELSE IF staticHit THEN Found(R.paths[shortPath])
            ELSE implicitIndex))))

\* matchRoute(path): static map, then the dynamic bucket of the segment count
\* in registration order, then the implicit index route
matchRoute(R, index) ==
  With(SelectSeq(index.segs, LAMBDA t : t # ""), LAMBDA texts :
  With(IF strict THEN texts ELSE [i \in DOMAIN texts |-> ToLowerCase(texts[i])],
       LAMBDA formattedSegs :
  With(AsLits(formattedSegs), LAMBDA shortPath :
    LET suffix == IF strict THEN index.suffix ELSE ToLowerCase(index.suffix)
        formattedPath == [segs |-> shortPath, suffix |-> suffix]
        asPath(segs) == [segs |-> segs, suffix |-> ""]
        staticHit == Has(R.paths, shortPath)
                     /\ validateSuffix(suffix, R.objs[R.paths[shortPath]].suffix,
                                       formattedPath, asPath(R.objs[R.paths[shortPath]].path))
        segmentCount == Len(shortPath)
        candidates == IF Has(R.dyn, segmentCount) THEN R.dyn[segmentCount] ELSE <<>>
        normalizedPath == NormalizedTokens(formattedSegs)
        accepts(c) == RegexExec(c.regex, normalizedPath).ok
                      /\ validateSuffix(suffix, R.objs[c.route].suffix, formattedPath, formattedPath)
        hits == SelectSeq(candidates, accepts)
        paramsOf(c) ==
            LET caps == RegexExec(c.regex, normalizedPath).caps
                keys == R.objs[c.route].pattern
            IN  {<<keys[i], IF i <= Len(caps) THEN caps[i] ELSE "undefined">> : i \in DOMAIN keys}
        endsWithIndex == Len(shortPath) > 0 /\ shortPath[Len(shortPath)] = L("index")
        indexKey == shortPath \o <<L("index")>>
        indexHit(key) == Has(R.paths, key)
                         /\ validateSuffix(suffix, R.objs[R.paths[key]].suffix,
                                           formattedPath, asPath(R.objs[R.paths[key]].path))
        implicitIndex ==
            IF suffix = "" /\ ~endsWithIndex
            THEN (IF indexHit(indexKey) THEN Found(R.paths[indexKey]) ELSE NoRoute)
            ELSE IF shortPath = <<L("index")>>
            THEN (IF indexHit(<<>>) THEN Found(R.paths[<<>>]) ELSE NoRoute)
            ELSE NoRoute
    IN  IF staticHit THEN Found(R.paths[shortPath])
        ELSE With(hits, LAMBDA found :
                IF found # <<>>
                THEN [found |-> TRUE, route |-> found[1].route, hasParams |-> TRUE,
                      params |-> paramsOf(found[1])]
                ELSE implicitIndex))))

\* findNamedRoute
findNamedRoute(R, name) ==
    IF Has(R.named, name) THEN Found(R.named[name]) ELSE NoRoute

\* findRoute(index): a path when the index starts with "/", else a name
findRoute(R, index) ==
    IF index.abs THEN matchRoute(R, index) ELSE findNamedRoute(R, index.segs[1])

\* findParentRoute; 0 = undefined
findParentRoute(R, id) == IF Has(R.parent, id) THEN R.parent[id] ELSE 0

\* removeRoute(index, isRemoveFromRoutes): the children are removed by their
\* path, then the route is deleted from the path map under route.path, from the
\* name map and from the dynamic buckets
RECURSIVE removeRoute(_, _, _)
removeRoute(R, index, isRemoveFromRoutes) ==
  With(findRoute(R, index), LAMBDA m :
    IF ~m.found THEN R
    ELSE
      LET id == m.route
          deleteRoute == R.objs[id]
          RECURSIVE kids(_, _)
          kids(S, i) ==
              IF i > Len(deleteRoute.children) THEN S
              ELSE With(removeRoute(S, IndexOf(PathTexts(S.objs[deleteRoute.children[i]].path)),
                                    FALSE),
                        LAMBDA T : kids(T, i + 1))
      IN  With(IF isRouteGroup(deleteRoute) THEN kids(R, 1) ELSE R, LAMBDA cleared :
          With([cleared EXCEPT !.paths = Del(@, deleteRoute.path),
                               !.named = IF deleteRoute.name # "" THEN Del(@, deleteRoute.name)
                                         ELSE @],
               LAMBDA unmapped :
          With(removeDynamicRoute(unmapped, deleteRoute.path), LAMBDA undyn :
               IF isRemoveFromRoutes THEN removedFromRoutes(undyn, id) ELSE undyn))))

(***************************************************************************)
(* Locations and targets                                                   *)
(***************************************************************************)
\* A path of a Location is [segs, ext]: the texts of its segments and the
\* suffix written into its last segment ("" when there is none).
\* A fullPath is the composed address [path, query, hash].
BasePath == [segs |-> <<>>, ext |-> ""]     \* RouterOptions.base (default '/')
DefaultSuffix == ""                          \* RouterOptions.defaultSuffix (unset)

\* String(value).replace(/\s+/g, '_')
ReplaceSpaces(text) == IF text = "x y" THEN "x_y" ELSE text

\* formatHash(hash, true)
formatHash(hash) == IF hash = "h" THEN "#h" ELSE hash

\* addPathSuffix(path, suffix)
addPathSuffix(path, suffix) ==
    IF suffix = "" THEN path
    ELSE IF Len(path.segs) > 0 /\ path.ext = "" /\ ~\E i \in DOMAIN path.segs : HasDot(path.segs[i])
    THEN [path EXCEPT !.ext = suffix]
    ELSE path

\* makeFullPath(path, query, hash, suffix) in path/memory mode:
\* formatPath(`${basePath}${path}${query}${hash}`)
makeFullPath(path, query, hash, suffix) ==
    LET suffixed == addPathSuffix(path, IF suffix # "" THEN suffix ELSE DefaultSuffix)
    IN  [path |-> [suffixed EXCEPT !.segs = SelectSeq(BasePath.segs \o @, LAMBDA t : t # "")],
         query |-> query, hash |-> hash]

\* mergePathParams treating a mandatory variable without a value as an
\* optional one (the segment is dropped, nothing is thrown)
mergePathParams_Lenient(segs, params) ==
    LET value(sg) == Lookup(params, sg.v)
        text(sg) == IF sg.k = "lit" THEN sg.v
                    ELSE IF value(sg) = "undefined" THEN "" ELSE ReplaceSpaces(value(sg))
        texts == [i \in DOMAIN segs |-> text(segs[i])]
    IN  [err |-> FALSE,
         path |-> [segs |-> SelectSeq(texts, LAMBDA t : t # ""), ext |-> ""]]

\* mergePathParams(path, params): err when a mandatory variable has no value
mergePathParams(segs, params) ==
    LET value(sg) == Lookup(params, sg.v)
        text(sg) == IF sg.k = "lit" THEN sg.v
                    ELSE IF value(sg) = "undefined" THEN "" ELSE ReplaceSpaces(value(sg))
        texts == [i \in DOMAIN segs |-> text(segs[i])]
    IN  [err |-> \E i \in DOMAIN segs : segs[i].k = "var" /\ value(segs[i]) = "undefined",
         path |-> [segs |-> SelectSeq(texts, LAMBDA t : t # ""), ext |-> ""]]

Location(index, path, hash, query, params, matched, meta, suffix) ==
    [index |-> index, path |-> path, hash |-> hash,
     fullPath |-> makeFullPath(path, query, hash, suffix),
     params |-> params, query |-> query, matched |-> matched, meta |-> meta, suffix |-> suffix]

\* the live Location after construction (RouterCore constructor)
InitialLocation ==
    [index |-> PathIndex(<<>>), path |-> BasePath, hash |-> "",
     fullPath |-> [path |-> BasePath, query |-> {}, hash |-> ""],
     params |-> {}, query |-> {}, matched |-> <<>>, meta |-> {}, suffix |-> ""]

\* A RouteTarget object; a RouteLocation passed as target (go) has isLoc and
\* carries the location in loc.  An absent isReplace is FALSE (falsy).
Target(index, hash, query, params, isReplace) ==
    [isLoc |-> FALSE, index |-> index, hash |-> hash, query |-> query, params |-> params,
     isReplace |-> isReplace, loc |-> InitialLocation]

LocationTarget(loc) ==
    [isLoc |-> TRUE, index |-> loc.index, hash |-> loc.hash, query |-> loc.query,
     params |-> loc.params, isReplace |-> FALSE, loc |-> loc]

RECURSIVE Ancestors(_, _)
\* the chain of all ancestors, root first, with or without a widget
Ancestors_All(R, id) ==
    LET parent == findParentRoute(R, id)
    IN  IF parent = 0 THEN <<>> ELSE Ancestors(R, parent) \o <<parent>>

\* the chain of ancestors with a widget, root first (the loop of
\* createRouteLocation)
Ancestors(R, id) ==
    LET parent == findParentRoute(R, id)
    IN  IF parent = 0 THEN <<>>
        ELSE Ancestors(R, parent) \o (IF R.objs[parent].widget THEN <<parent>> ELSE <<>>)

\* createRouteLocation(target): [err, loc, target]; target is the object after
\* findRoute has merged the matched parameters into target.params
createRouteLocation(R, target) ==
  IF target.isLoc THEN [err |-> "", loc |-> target.loc, target |-> target]
  ELSE
  With(findRoute(R, target.index), LAMBDA m :
  With(IF m.hasParams THEN Assign(target.params, m.params) ELSE target.params, LAMBDA params :
  With(IF m.found THEN mergePathParams(R.objs[m.route].path, params)
       ELSE [err |-> FALSE, path |-> [segs |-> <<>>, ext |-> ""]], LAMBDA merged :
    LET indexPath == [segs |-> SelectSeq(target.index.segs, LAMBDA t : t # ""),
                      ext |-> target.index.suffix]
        path == IF m.found THEN merged.path ELSE indexPath
        matched == IF m.found THEN Ancestors(R, m.route) \o <<m.route>> ELSE <<>>
        meta == IF m.found THEN R.objs[m.route].meta ELSE {}
    IN  [err |-> IF m.found /\ merged.err THEN "missing_param" ELSE "",
         loc |-> Location(target.index, path, formatHash(target.hash), target.query,
                          params, matched, meta, getPathSuffix(target.index)),
         target |-> [target EXCEPT !.params = params]])))

\* isDeepEqual(to, currentRouteLocation)
isDeepEqual(a, b) == a = b

\* patchUpdate(location, newLocation): matched, params, query, meta and the
\* string keys path, hash, index, fullPath
patchUpdate(location, newLocation) ==
    [location EXCEPT !.matched = newLocation.matched,
                     !.params = newLocation.params,
                     !.query = newLocation.query,
                     !.meta = newLocation.meta,
                     !.path = newLocation.path,
                     !.hash = newLocation.hash,
                     !.index = newLocation.index,
                     !.fullPath = newLocation.fullPath]

(***************************************************************************)
(* RouterCore.navigate.  A task is one navigate() call; pc = "guard" while *)
(* its performNavigation awaits the before-guard, "done" once its promise  *)
(* has settled.  status "rejected" is a rejected promise (no result).      *)
(* The engine keeps nothing of a settled call: its closure is retired, and *)
(* result holds what its promise delivered until the next one settles.     *)
(***************************************************************************)
Registry ==
    [objs |-> routeObj, named |-> namedRoutes, paths |-> pathRoutes, dyn |-> dynamicRoutes,
     parent |-> parentRoute, routes |-> routes, err |-> ""]

NoTarget == Target(PathIndex(<<>>), "", {}, {}, FALSE)
Undefined == [set |-> FALSE, target |-> NoTarget]

\* the synthetic redirect of a group (registerRoute): the first node on the
\* first-child chain with a redirect or a widget; 0 when there is none
RECURSIVE FirstRenderable(_, _)
FirstRenderable(R, id) ==
    IF id = 0 THEN 0
    ELSE IF R.objs[id].redirect.kind # "none" \/ R.objs[id].widget THEN id
    ELSE FirstRenderable(R, IF isRouteGroup(R.objs[id]) THEN R.objs[id].children[1] ELSE 0)

\* the target a route's redirect yields: [has, err, index]; a callback
\* (kind "function") returns its target ("target"), returns undefined
\* ("undefined") or throws ("throw")
RECURSIVE RedirectOf(_, _, _)
\* a redirect lookup that passes over the static targets
RedirectOf_StaticIgnored(R, id, fnResult) ==
    LET rd == R.objs[id].redirect
        first == FirstRenderable(R, IF isRouteGroup(R.objs[id]) THEN R.objs[id].children[1] ELSE 0)
        none == [has |-> FALSE, err |-> "", index |-> PathIndex(<<>>)]
        texts(segs) == [i \in DOMAIN segs |-> segs[i].v]
    IN  CASE rd.kind \in {"none", "static"} -> none
          [] rd.kind = "function" ->
                IF fnResult = "throw"
                THEN [has |-> FALSE, err |-> "redirect_threw", index |-> rd.index]
                ELSE [has |-> fnResult = "target", err |-> "", index |-> rd.index]
          [] OTHER ->
                IF first = 0 THEN none
                ELSE IF R.objs[first].redirect.kind # "none"
                THEN RedirectOf(R, first, fnResult)
                ELSE [has |-> TRUE, err |-> "", index |-> PathIndex(texts(R.objs[first].path))]

RedirectOf(R, id, fnResult) ==
    LET rd == R.objs[id].redirect
        first == FirstRenderable(R, IF isRouteGroup(R.objs[id]) THEN R.objs[id].children[1] ELSE 0)
        none == [has |-> FALSE, err |-> "", index |-> PathIndex(<<>>)]
        texts(segs) == [i \in DOMAIN segs |-> segs[i].v]
    IN  CASE rd.kind = "none" -> none
          [] rd.kind = "static" -> [has |-> TRUE, err |-> "", index |-> rd.index]
          [] rd.kind = "function" ->
                IF fnResult = "throw"
                THEN [has |-> FALSE, err |-> "redirect_threw", index |-> rd.index]
                ELSE [has |-> fnResult = "target", err |-> "", index |-> rd.index]
          [] OTHER ->
                IF first = 0 THEN none
                ELSE IF R.objs[first].redirect.kind # "none"
                THEN RedirectOf(R, first, fnResult)
                ELSE [has |-> TRUE, err |-> "", index |-> PathIndex(texts(R.objs[first].path))]

\* createNavigateResult reporting not_matched for a navigation that has
\* committed a candidate without a matched route (the match check made after
\* the history write)
createNavigateResult_LateMatchCheck(task, status, error) ==
    [task EXCEPT !.pc = "done",
                 !.status = IF status = "success" /\ Len(task.to.matched) = 0
                            THEN "not_matched" ELSE status,
                 !.error = error,
                 !.redirectFrom = IF task.isRedirect
                                  THEN [set |-> TRUE, target |-> task.target]
                                  ELSE Undefined]

\* createNavigateResult(overrides): the settled task
createNavigateResult(task, status, error) ==
    [task EXCEPT !.pc = "done", !.status = status, !.error = error,
                 !.redirectFrom = IF task.isRedirect
                                  THEN [set |-> TRUE, target |-> task.target]
                                  ELSE Undefined]

Rejected(task, error) == [task EXCEPT !.pc = "done", !.status = "rejected", !.error = error]

\* a dispatch that calls the beforeEach of the options whatever the route
onBeforeEach_GlobalFirst(R, to) == "beforeEach"

\* onBeforeEach(to, from): the guard function called, the deepest matched
\* route's beforeEnter or else the beforeEach of the options
onBeforeEach(R, to) ==
    LET last == IF Len(to.matched) = 0 THEN 0 ELSE to.matched[Len(to.matched)]
    IN  IF last # 0 /\ R.objs[last].beforeEnter # "" THEN R.objs[last].beforeEnter
        ELSE "beforeEach"

\* onAfterEach(to, from): the guard function called ("" when none is): none
\* without a matched route, else the deepest matched route's afterEnter or
\* else the afterEach of the options
onAfterEach(R, to) ==
    LET last == IF Len(to.matched) = 0 THEN 0 ELSE to.matched[Len(to.matched)]
    IN  IF last = 0 THEN ""
        ELSE IF R.objs[last].afterEnter # "" THEN R.objs[last].afterEnter
        ELSE "afterEach"

\* performNavigation(_target, isRedirect) up to its first await: builds the
\* candidate, follows route redirects, checks for a duplicate and calls the
\* before-guard.  depth counts the calls of performNavigation on the stack: a
\* call the stack has no room for throws a RangeError, which rejects the
\* promise.  declined notes that the route's redirect yielded no target.
RECURSIVE performNavigation(_, _, _, _, _, _, _)
performNavigation(R, live, task, target, isRedirect, fnResult, depth) ==
  IF depth > MaxStack THEN Rejected(task, "range_error")
  ELSE
  With(createRouteLocation(R, target), LAMBDA made :
  With([task EXCEPT !.cur = made.target, !.isRedirect = isRedirect, !.to = made.loc,
                    !.target = IF isRedirect THEN @ ELSE made.target], LAMBDA framed :
    LET to == made.loc
        last == IF Len(to.matched) = 0 THEN 0 ELSE to.matched[Len(to.matched)]
    IN  IF made.err # "" THEN Rejected(task, made.err)
        ELSE With(IF last = 0 THEN [has |-> FALSE, err |-> "", index |-> PathIndex(<<>>)]
                  ELSE RedirectOf(R, last, fnResult), LAMBDA rd :
               IF rd.err # "" THEN Rejected(framed, rd.err)
               ELSE IF rd.has
               THEN With(Target(rd.index, "", {}, {}, FALSE), LAMBDA next :
                         performNavigation(R, live, framed, next, TRUE, fnResult, depth + 1))
               ELSE IF isDeepEqual(to, live) THEN createNavigateResult(framed, "duplicated", "")
               ELSE [framed EXCEPT !.pc = "guard", !.guards = @ + 1,
                                   !.guardFn = onBeforeEach(R, to),
                                   !.declined = /\ last # 0
                                                /\ R.objs[last].redirect.kind # "none"
                                                /\ fnResult = "undefined"])))

(***************************************************************************)
(* The browser window of the hash and history adapters: the session        *)
(* history (entries of a url and a state, and a cursor) and the            *)
(* notifications the browser has queued and not yet delivered.  A url is   *)
(* the fullPath it was written from.  A state is what createState keeps of *)
(* a Location (set = FALSE: null, or an object without index); scroll says *)
(* that saveCurrentScrollPosition stored a scrollPosition in it.  A        *)
(* notification names the url it announces, the state of the entry, and    *)
(* the navigate() call whose commit caused it (by = 0: none did).  moves   *)
(* counts the changes of the address the user made.                        *)
(***************************************************************************)
NoState ==
    [set |-> FALSE, index |-> PathIndex(<<>>), hash |-> "", query |-> {}, scroll |-> FALSE]

\* createState(data): the Location without matched, as history state
createState(data) ==
    [set |-> TRUE, index |-> data.index, hash |-> data.hash, query |-> data.query,
     scroll |-> FALSE]

NoEvent == [kind |-> "", url |-> InitialLocation.fullPath, state |-> NoState, by |-> 0]

\* the memory adapter has no window
NoWindow == [mode |-> "memory", entries |-> <<>>, cursor |-> 0, events |-> <<>>, moves |-> 0]

\* window.location, as the fullPath it shows
Address(W) == W.entries[W.cursor + 1].url

\* history.pushState(state, '', url): the entries after the cursor are dropped
pushState(W, state, url) ==
    [W EXCEPT !.entries = Append(SubSeq(@, 1, W.cursor + 1), [url |-> url, state |-> state]),
              !.cursor = @ + 1]

\* history.replaceState(state, '', url)
replaceState(W, state, url) ==
    [W EXCEPT !.entries[W.cursor + 1] = [url |-> url, state |-> state]]

\* RouterHistory.saveCurrentScrollPosition(): the state of the entry with a
\* scrollPosition added, the url as it is
saveCurrentScrollPosition(W) ==
    [W EXCEPT !.entries[W.cursor + 1].state.scroll = TRUE]

\* a navigation of the window to a url that differs from the address in its
\* fragment at most (location.hash = ..., location.replace(url)): nothing when
\* the url is the address; else the entry is added or replaced, with no state,
\* and the browser queues a hashchange notification
navigateFragment(W, url, isReplace, by) ==
    IF url = Address(W) THEN W
    ELSE [(IF isReplace THEN replaceState(W, NoState, url) ELSE pushState(W, NoState, url))
             EXCEPT !.events = Append(@, [kind |-> "hashchange", url |-> url,
                                           state |-> NoState, by |-> by])]

\* urlToRouteTarget(url, mode, base) for a url the router wrote: the path
\* (in hash mode the part of the fragment before its anchor) without the
\* base, the anchor and the search
urlToRouteTarget(url) ==
    [isLoc |-> FALSE, index |-> [abs |-> TRUE, segs |-> url.path.segs, suffix |-> url.path.ext],
     hash |-> url.hash, query |-> url.query, params |-> {}, isReplace |-> FALSE,
     loc |-> InitialLocation]

\* the candidate of a call that has built none
NoCandidate == Location(NameIndex(""), [segs |-> <<>>, ext |-> ""], "", {}, {}, <<>>, {}, "")

\* what a settled call remembers of the engine as it was when its last step
\* began (observation)
NoSnapshot ==
    [history |-> <<>>, currentIndex |-> 0, current |-> NoCandidate,
     pendingReplace |-> FALSE, pendingPush |-> FALSE, writes |-> 0, marks |-> 0]

NewTask(id, target, from, viaGo) ==
    [id |-> id, target |-> target, cur |-> target, isRedirect |-> FALSE,
     from |-> from, to |-> NoCandidate, pc |-> "start", status |-> "", error |-> "",
     redirectFrom |-> Undefined, guards |-> 0, redirects |-> 0,
     viaGo |-> viaGo, stale |-> FALSE, guardResult |-> "", before |-> NoSnapshot,
     declined |-> FALSE, guardTarget |-> target, goTarget |-> -1, seq |-> TRUE,
     guardFn |-> "", event |-> NoEvent]

\* no promise has settled yet
NoResult == NewTask(0, NoTarget, NoCandidate, FALSE)

\* no go() call has just been made
NoGo ==
    [set |-> FALSE, delta |-> 0, started |-> FALSE, taskCounter |-> 0, pendingGo |-> -1,
     before |-> NoSnapshot]

\* the closure of a settled call; a go() call keeps its status for the
\* callback go chained on the promise (pc = "then"), and the call onHashChange
\* made keeps its result for the callback chained there
Retired(task) ==
    IF task.event.kind = "hashchange" /\ task.status # "rejected"
    THEN [task EXCEPT !.pc = "then"]
    ELSE IF task.viaGo /\ task.status # "rejected"
    THEN [NoResult EXCEPT !.id = task.id, !.pc = "then", !.status = task.status, !.viaGo = TRUE,
                          !.seq = task.seq]
    ELSE [NoResult EXCEPT !.id = task.id, !.pc = "done", !.seq = task.seq]

(***************************************************************************)
(* RouterMemory and completeNavigation.  An entry of _history is           *)
(* [live, loc]: live says that the entry is the live Location object       *)
(* itself (initializeRouter pushes currentRouteLocation), whose fields are *)
(* read through the reference.                                             *)
(***************************************************************************)
LiveEntry == [live |-> TRUE, loc |-> InitialLocation]
Entry(loc) == [live |-> FALSE, loc |-> loc]
Deref(entry, live) == IF entry.live THEN live ELSE entry.loc

NoLocation == [set |-> FALSE, loc |-> InitialLocation]
Pending(loc) == [set |-> TRUE, loc |-> loc]

\* _completeViewRender: the empty method of the class, or the closure
\* completeNavigation assigns, which holds from; fired counts its calls and
\* guard names the after-guard its last call invoked
NoRender == [set |-> FALSE, from |-> InitialLocation, fired |-> 0, guard |-> ""]
Installed(from) == [set |-> TRUE, from |-> from, fired |-> 0, guard |-> ""]

\* no direct call has just been made
NoCall ==
    [op |-> "", threw |-> FALSE, data |-> NoLocation, query |-> {}, hash |-> "",
     before |-> NoSnapshot, render |-> NoRender, taskCounter |-> 0, tasks |-> 0,
     guards |-> <<>>, count |-> 0]

\* the observation dropped by the next step of the engine; count is the
\* number of direct calls made so far
Forgotten == [NoCall EXCEPT !.count = lastCall.count]

\* a memory state [history, currentIndex, pendingGo, pendingReplace,
\* pendingPush, current, writes, marks, err, window, task]; task is
\* _currentTaskId
MemState ==
    [history |-> history, currentIndex |-> currentIndex, pendingGo |-> pendingGo,
     pendingReplace |-> pendingReplace, pendingPush |-> pendingPush, current |-> current,
     writes |-> writes, marks |-> marks, render |-> viewRender, err |-> "",
     window |-> window, task |-> currentTaskId]

\* completeNavigation(data): the render callback is installed with a copy of
\* the live Location as from; then the live Location is patched to data, else
\* to the pending replace value, else to the pending push value, else an
\* error is thrown; then both markers are cleared
completeNavigation(M, data) ==
    With([M EXCEPT !.render = Installed(M.current)], LAMBDA set :
        LET value == IF data.set THEN data.loc
                     ELSE IF set.pendingReplace.set THEN set.pendingReplace.loc
                     ELSE set.pendingPush.loc
        IN  IF ~data.set /\ ~set.pendingReplace.set /\ ~set.pendingPush.set
            THEN [set EXCEPT !.err = "no_pending"]
            ELSE [set EXCEPT !.current = patchUpdate(@, value),
                             !.pendingReplace = NoLocation,
                             !.pendingPush = NoLocation])

\* _updateHistory(data, isReplace) leaving _currentIndex as it was
updateHistory_CursorKept(M, data, isReplace) ==
    LET nextIndex == M.currentIndex + 1
        newIndex == IF M.pendingGo # -1 THEN M.pendingGo
                    ELSE IF isReplace THEN M.currentIndex
                    ELSE nextIndex
        written == IF newIndex + 1 <= Len(M.history)
                   THEN [M.history EXCEPT ![newIndex + 1] = Entry(data)]
                   ELSE Append(M.history, Entry(data))
        cut == IF M.pendingGo = -1 /\ ~isReplace /\ nextIndex < Len(M.history)
               THEN SubSeq(written, 1, nextIndex + 1)
               ELSE written
    IN  With([M EXCEPT !.history = cut, !.writes = @ + 1],
             LAMBDA moved : [completeNavigation(moved, NoLocation) EXCEPT !.pendingGo = -1])

\* RouterMemory._updateHistory(data, isReplace)
updateHistory(M, data, isReplace) ==
    LET nextIndex == M.currentIndex + 1
        newIndex == IF M.pendingGo # -1 THEN M.pendingGo
                    ELSE IF isReplace THEN M.currentIndex
                    ELSE nextIndex
        written == IF newIndex + 1 <= Len(M.history)
                   THEN [M.history EXCEPT ![newIndex + 1] = Entry(data)]
                   ELSE Append(M.history, Entry(data))
        cut == IF M.pendingGo = -1 /\ ~isReplace /\ nextIndex < Len(M.history)
               THEN SubSeq(written, 1, nextIndex + 1)
               ELSE written
    IN  With([M EXCEPT !.history = cut, !.currentIndex = newIndex, !.writes = @ + 1],
             LAMBDA moved : [completeNavigation(moved, NoLocation) EXCEPT !.pendingGo = -1])

\* MemoryRouter.currentIndex: this._history.indexOf(this.currentRouteLocation)
indexOfLive(h) ==
    IF \E i \in DOMAIN h : h[i].live
    THEN (CHOOSE i \in DOMAIN h : h[i].live /\ \A j \in 1..(i - 1) : ~h[j].live) - 1
    ELSE -1

\* MemoryRouter._updateHistory(data, isReplace), the parent of HashRouter:
\* an assignment to index -1 leaves the array as it is; completeNavigation
\* is called with data
MemoryRouter_updateHistory(M, data, isReplace) ==
    LET index == indexOfLive(M.history)
        nextIndex == index + 1
        written == IF M.pendingGo # -1
                   THEN IF M.pendingGo + 1 <= Len(M.history)
                        THEN [M.history EXCEPT ![M.pendingGo + 1] = Entry(data)]
                        ELSE Append(M.history, Entry(data))
                   ELSE IF isReplace
                   THEN IF index = -1 THEN M.history
                        ELSE [M.history EXCEPT ![index + 1] = Entry(data)]
                   ELSE IF nextIndex < Len(M.history)
                   THEN SubSeq([M.history EXCEPT ![nextIndex + 1] = Entry(data)], 1, nextIndex + 1)
                   ELSE Append(M.history, Entry(data))
    IN  With([M EXCEPT !.history = written, !.currentIndex = indexOfLive(written)],
             LAMBDA moved : [completeNavigation(moved, Pending(data)) EXCEPT !.pendingGo = -1])

\* fullPathToHash(fullPath) assigned to window.location.hash: the search of
\* the address stays, the fragment is the fullPath without the base.  Only a
\* fullPath without a query yields the fragment its path and anchor make (a
\* query lands inside the fragment, where it reads as the path "?")
hashOf(W, fullPath) ==
    IF fullPath.query = {}
    THEN [path |-> fullPath.path, query |-> Address(W).query, hash |-> fullPath.hash]
    ELSE [path |-> [segs |-> <<"?">>, ext |-> ""], query |-> Address(W).query, hash |-> "#/"]

\* HashRouter.pushHistory(data): window.location.hash = fullPathToHash(data.fullPath)
HashRouter_pushHistory(M, data) ==
    [M EXCEPT !.window = navigateFragment(@, hashOf(@, data.fullPath), FALSE, M.task),
              !.writes = @ + 1]

\* HashRouter.replaceHistory(data): window.location.replace(data.fullPath)
HashRouter_replaceHistory(M, data) ==
    [M EXCEPT !.window = navigateFragment(@, data.fullPath, TRUE, M.task),
              !.writes = @ + 1]

\* RouterHistory.pushHistory(data)
RouterHistory_pushHistory(M, data) ==
    With([M EXCEPT !.window = pushState(saveCurrentScrollPosition(@), createState(data),
                                        data.fullPath),
                   !.writes = @ + 1],
         LAMBDA written : completeNavigation(written, NoLocation))

\* RouterHistory.replaceHistory(data): completeNavigation is called with the
\* scrollPosition of the state as its first argument, which is data: when
\* there is one, updateRouteLocation patches the Location from it and
\* diffUpdateArrays throws a TypeError on its missing matched, after the
\* render callback is installed
RouterHistory_replaceHistory(M, data) ==
    LET scrollPosition == M.window.entries[M.window.cursor + 1].state.scroll
    IN  With([M EXCEPT !.window = replaceState(@, createState(data), data.fullPath),
                       !.writes = @ + 1],
             LAMBDA written :
                 IF scrollPosition
                 THEN [written EXCEPT !.render = Installed(written.current),
                                      !.err = "type_error"]
                 ELSE completeNavigation(written, NoLocation))

\* pushHistory / replaceHistory of the adapter as navigate calls them, after
\* the marker is set
commitNavigation(M, to, isReplace) ==
    With(IF isReplace THEN [M EXCEPT !.pendingReplace = Pending(to), !.marks = @ + 1]
         ELSE [M EXCEPT !.pendingPush = Pending(to), !.marks = @ + 1],
         LAMBDA marked :
             CASE M.window.mode = "hash" ->
                      IF isReplace THEN HashRouter_replaceHistory(marked, to)
                      ELSE HashRouter_pushHistory(marked, to)
               [] M.window.mode = "path" ->
                      IF isReplace THEN RouterHistory_replaceHistory(marked, to)
                      ELSE RouterHistory_pushHistory(marked, to)
               [] OTHER -> updateHistory(marked, to, isReplace))

(***************************************************************************)
(* Inputs                                                                  *)
(***************************************************************************)
\* the targets callers pass to push and replace
NavTargets ==
    { Target(PathIndex(<<"a">>), "", {}, {}, FALSE),
      Target(SuffixIndex(<<"a">>, ".html"), "", {}, {}, FALSE),
      Target(NameIndex("user"), "", {}, {}, FALSE),
      Target(PathIndex(<<"f">>), "", {}, {}, FALSE),
      Target(PathIndex(<<"p">>), "", {}, {}, FALSE),
      Target(PathIndex(<<"zz">>), "", {}, {}, FALSE) }

\* what a before-guard settles with: true or nothing ("continue"), false,
\* an exception ("throw"), a RouteTarget object ("redirect") or a string
\* index ("string"), both naming GuardRedirect
GuardResults == {"continue", "false", "throw", "redirect", "string"}
GuardRedirect == Target(PathIndex(<<"b">>), "", {}, {}, FALSE)
GuardRedirectUser == Target(NameIndex("user"), "", {}, {}, FALSE)

\* the targets a guard's result can name
GuardTargets(outcome) ==
    IF outcome \in {"redirect", "string"} THEN {GuardRedirect, GuardRedirectUser}
    ELSE {GuardRedirect}

GoDeltas == {-2, -1, 0, 1}

\* what the redirect callback a target reaches does: only the route "f" has a
\* callback
CallbackResults(target) ==
    IF target.index = PathIndex(<<"f">>) THEN {"target", "undefined", "throw"} ELSE {"target"}

(***************************************************************************)
(* Initial state: the router constructed and initialize()d in memory mode  *)
(***************************************************************************)
InitialRoutes == <<1, 2, 3, 4, 5, 6, 16, 17>>
InitialRegistry == [setupRoutes(EmptyRegistry, InitialRoutes) EXCEPT !.routes = InitialRoutes]

Init ==
    /\ routeObj = InitialRegistry.objs
    /\ namedRoutes = InitialRegistry.named
    /\ pathRoutes = InitialRegistry.paths
    /\ dynamicRoutes = InitialRegistry.dyn
    /\ parentRoute = InitialRegistry.parent
    /\ routes = InitialRegistry.routes
    /\ regLog = <<>>
    /\ removal = NoRemoval
    /\ lookup = NoLookup
    /\ missing \in BOOLEAN
    /\ taskCounter = 0
    /\ currentTaskId = 0
    /\ pendingReplace = NoLocation
    /\ pendingPush = NoLocation
    /\ current = InitialLocation
    /\ history = <<LiveEntry>>
    /\ currentIndex = 0
    /\ pendingGo = -1
    /\ tasks = <<>>
    /\ result = NoResult
    /\ writes = 0
    /\ marks = 0
    /\ lastGo = NoGo
    /\ viewRender = NoRender
    /\ lastCall = NoCall
    /\ window = NoWindow

(***************************************************************************)
(* Navigation actions                                                      *)
(***************************************************************************)
\* the engine as a step finds it
Snapshot ==
    [history |-> history, currentIndex |-> currentIndex, current |-> current,
     pendingReplace |-> pendingReplace.set, pendingPush |-> pendingPush.set,
     writes |-> writes, marks |-> marks]

\* the result a promise delivers, with the engine as its last step found it
Settled(task) == [task EXCEPT !.before = Snapshot]

\* the same observation of a memory state M
SnapshotOf(M) ==
    [history |-> M.history, currentIndex |-> M.currentIndex, current |-> M.current,
     pendingReplace |-> M.pendingReplace.set, pendingPush |-> M.pendingPush.set,
     writes |-> M.writes, marks |-> M.marks]

\* navigate(target): a new task id, the from snapshot and performNavigation
\* up to its first await.  goIndex is the history index a go() call navigates
\* to (-1 for push and replace); seq notes that every earlier call had settled.
StartNavigate(target, viaGo, fnResult, goIndex, event) ==
    \E taskId \in {taskCounter + 1} :
    \E new \in {[NewTask(taskId, target, current, viaGo) EXCEPT
                    !.goTarget = goIndex, !.event = event,
                    !.seq = \A i \in DOMAIN tasks : tasks[i].pc = "done" /\ tasks[i].seq]} :
    \E task \in {performNavigation(Registry, current, new, target, FALSE, fnResult, 1)} :
        /\ taskCounter' = taskId
        /\ currentTaskId' = taskId
        /\ IF task.pc = "done"
           THEN tasks' = Append(tasks, Retired(task)) /\ result' = Settled(task)
           ELSE tasks' = Append(tasks, task) /\ UNCHANGED result

\* push(target) / replace(target)
Navigate(target, isReplace, fnResult) ==
    /\ StartNavigate([target EXCEPT !.isReplace = isReplace], FALSE, fnResult, -1, NoEvent)
    /\ lastGo' = NoGo
    /\ lastCall' = Forgotten
    /\ UNCHANGED <<regVars, window, viewRender, missing, pendingReplace, pendingPush, current,
                   history, currentIndex, pendingGo, writes, marks>>

\* go(delta) taking an index beyond either end of the history for no move
targetIndex_NoOpBeyond(cursor, delta, length) ==
    IF cursor + delta < 0 \/ cursor + delta > length - 1 THEN cursor ELSE cursor + delta

\* Math.max(0, Math.min(this._history.length - 1, currentIndex + delta))
targetIndex(cursor, delta, length) ==
    IF cursor + delta < 0 THEN 0
    ELSE IF cursor + delta > length - 1 THEN length - 1
    ELSE cursor + delta

\* go(delta) gets past its two early returns and navigates
GoStarts(delta) == delta # 0 /\ targetIndex(currentIndex, delta, Len(history)) # currentIndex

\* RouterMemory.go(delta)
Go(delta) ==
    \E target \in {targetIndex(currentIndex, delta, Len(history))} :
        /\ lastCall' = Forgotten
        /\ lastGo' = [set |-> TRUE, delta |-> delta, started |-> GoStarts(delta),
                      taskCounter |-> taskCounter, pendingGo |-> pendingGo, before |-> Snapshot]
        /\ IF delta = 0 \/ target = currentIndex
           THEN UNCHANGED <<regVars, window, viewRender, missing, taskCounter, currentTaskId, pendingReplace,
                            pendingPush, current, history, currentIndex, pendingGo, tasks,
                            result, writes, marks>>
           ELSE /\ pendingGo' = target
                /\ \E entry \in {LocationTarget(Deref(history[target + 1], current))} :
                   \E fnResult \in CallbackResults(entry) :
                       StartNavigate(entry, TRUE, fnResult, target, NoEvent)
                /\ UNCHANGED <<regVars, window, viewRender, missing, pendingReplace, pendingPush,
                               current, history, currentIndex, writes, marks>>

\* the callback go() chains on its navigation: a result other than success
\* clears _pendingGo
GoThen(t) ==
    /\ t \in DOMAIN tasks
    /\ tasks[t].pc = "then"
    /\ tasks[t].viaGo
    /\ tasks' = [tasks EXCEPT ![t] = [NoResult EXCEPT !.id = t, !.pc = "done",
                                                      !.seq = tasks[t].seq]]
    /\ pendingGo' = IF tasks[t].status # "success" THEN -1 ELSE pendingGo
    /\ lastGo' = NoGo
    /\ lastCall' = Forgotten
    /\ UNCHANGED <<regVars, window, viewRender, missing, taskCounter, currentTaskId, pendingReplace,
                   pendingPush, current, history, currentIndex, result, writes, marks>>

\* afterGuard without the isCurrentTask() check
afterGuard_NoFence(outcome, isCurrent, differs, unmatched, hasMissing) ==
    IF outcome = "throw" THEN "exception"
    ELSE IF outcome = "false" THEN "aborted"
    ELSE IF outcome = "redirect" /\ differs THEN "redirect"
    ELSE IF unmatched /\ ~hasMissing THEN "not_matched"
    ELSE "commit"

\* afterGuard with the isCurrentTask() check inverted
afterGuard_FenceInverted(outcome, isCurrent, differs, unmatched, hasMissing) ==
    IF outcome = "throw" THEN "exception"
    ELSE IF outcome = "false" THEN "aborted"
    ELSE IF isCurrent THEN "cancelled"
    ELSE IF outcome = "redirect" /\ differs THEN "redirect"
    ELSE IF unmatched /\ ~hasMissing THEN "not_matched"
    ELSE "commit"

\* afterGuard testing the guard's result for falsiness after the currency
\* check, so that false on a superseded navigation is lost and false on the
\* newest one falls through
afterGuard_FalseContinues(outcome, isCurrent, differs, unmatched, hasMissing) ==
    IF outcome = "throw" THEN "exception"
    ELSE IF ~isCurrent THEN "cancelled"
    ELSE IF outcome = "redirect" /\ differs THEN "redirect"
    ELSE IF unmatched /\ ~hasMissing THEN "not_matched"
    ELSE "commit"

\* afterGuard without the check of to.matched
afterGuard_NoMatchCheck(outcome, isCurrent, differs, unmatched, hasMissing) ==
    IF outcome = "throw" THEN "exception"
    ELSE IF outcome = "false" THEN "aborted"
    ELSE IF ~isCurrent THEN "cancelled"
    ELSE IF outcome = "redirect" /\ differs THEN "redirect"
    ELSE "commit"

\* performNavigation after the await of the before-guard: the step it takes
\* on the guard's outcome.  isCurrent is isCurrentTask(), differs says that an
\* object result names another index than the target's, unmatched that
\* to.matched is empty, hasMissing that RouterOptions.missing is configured.
afterGuard(outcome, isCurrent, differs, unmatched, hasMissing) ==
    IF outcome = "throw" THEN "exception"
    ELSE IF outcome = "false" THEN "aborted"
    ELSE IF ~isCurrent THEN "cancelled"
    ELSE IF outcome = "redirect" /\ differs THEN "redirect"
    ELSE IF unmatched /\ ~hasMissing THEN "not_matched"
    ELSE "commit"

\* the before-guard of task t settles with outcome, naming redirect when it
\* returns a target, and performNavigation runs on (no route a guard redirects
\* to has a redirect callback)
GuardResolve(t, outcome, redirect) ==
    /\ t \in DOMAIN tasks
    /\ tasks[t].pc = "guard"
    /\ outcome \in {"redirect", "string"} => tasks[t].redirects < MaxRedirects
    /\ lastGo' = NoGo
    /\ lastCall' = Forgotten
    /\ \E task \in {[tasks[t] EXCEPT !.stale = (currentTaskId # t), !.guardResult = outcome,
                                      !.guardTarget = redirect]} :
       \E step \in {afterGuard(outcome, currentTaskId = t, redirect.index # task.cur.index,
                                Len(task.to.matched) = 0, missing)} :
       LET commit ==
               \E M \in {commitNavigation(MemState, task.to, task.cur.isReplace)} :
               \E done \in {Settled(IF M.err = ""
                                     THEN createNavigateResult(task, "success", "")
                                     ELSE createNavigateResult(task, "exception", M.err))} :
                   /\ result' = done
                   /\ tasks' = [tasks EXCEPT ![t] = Retired(done)]
                   /\ history' = M.history
                   /\ currentIndex' = M.currentIndex
                   /\ pendingGo' = M.pendingGo
                   /\ pendingReplace' = M.pendingReplace
                   /\ pendingPush' = M.pendingPush
                   /\ current' = M.current
                   /\ writes' = M.writes
                   /\ marks' = M.marks
                   /\ viewRender' = M.render
                   /\ window' = M.window
           settle(value) ==
               \E next \in {value} :
                   /\ IF next.pc = "done"
                      THEN /\ tasks' = [tasks EXCEPT ![t] = Retired(next)]
                           /\ result' = Settled(next)
                      ELSE tasks' = [tasks EXCEPT ![t] = next] /\ UNCHANGED result
                   /\ UNCHANGED <<window, pendingReplace, pendingPush, current, history,
                                  currentIndex, pendingGo, writes, marks, viewRender>>
       IN  CASE step = "exception" ->
                    settle(createNavigateResult(task, "exception", "guard_threw"))
             [] step = "redirect" ->
                    settle(performNavigation(Registry, current,
                                             [task EXCEPT !.redirects = @ + 1],
                                             redirect, TRUE, "target", 1))
             [] step = "commit" -> commit
             [] OTHER -> settle(createNavigateResult(task, step, ""))
    /\ UNCHANGED <<regVars, missing, taskCounter, currentTaskId>>

(***************************************************************************)
(* Registry actions                                                        *)
(***************************************************************************)
\* the route objects callers hand to addRoute, and the parent indexes they
\* pass along (set = FALSE: no parent argument)
AddableRoutes == {7, 8, 9, 11, 12, 13, 14, 18, 19, 22, 24}
ChildRoutes == {7, 8, 9, 11, 12, 13, 14}      \* those also added under a parent
MatchedRoutes == {20, 21, 23, 31, 32, 33, 36, 37, 38, 39}     \* those added before paths are looked up
NoParent == [set |-> FALSE, index |-> NameIndex("")]
AddParents == {NoParent, [set |-> TRUE, index |-> NameIndex("b")],
               [set |-> TRUE, index |-> NameIndex("nope")]}

\* the indexes callers pass to removeRoute
RemoveIndexes ==
    {NameIndex("up"), NameIndex("grp"), PathIndex(<<"a">>), NameIndex("nope"), NameIndex("b")}

\* the paths callers look up with matchRoute, besides the registered ones
ProbeIndexes ==
    { SuffixIndex(<<"a">>, ".html"), PathIndex(<<"o">>), PathIndex(<<"o", "x">>),
      PathIndex(<<"o", "x", "y">>), PathIndex(<<"zz">>), PathIndex(<<"u", "new">>),
      PathIndex(<<"d">>), PathIndex(<<"items", "x">>), PathIndex(<<"index">>),
      SuffixIndex(<<"index">>, ".html"), SuffixIndex(<<"u", "new">>, ".html"),
      PathIndex(<<"v", "42", "new">>), PathIndex(<<"w", "42">>),
      PathIndex(<<"n", "42">>), SuffixIndex(<<"n", "42">>, ".html"),
      SuffixIndex(<<"hs">>, ".html"), SuffixIndex(<<"hs">>, ".php") }

\* the values of id callers generate a path of /items/{id} with
Ids == {"k", "K", "x y", "x-y", "v.1", ""}

\* what a call of addRoute leaves in the log: its arguments, the exception it
\* threw ("" = none) and the four indexes as they were before the call
AddCall(id, parent, err) ==
    [id |-> id, parent |-> parent, err |-> err,
     named |-> namedRoutes, paths |-> pathRoutes, dyn |-> dynamicRoutes, routes |-> routes]

\* addRoute(route, parent)
addRoute(R, id, parent) ==
    IF parent.set
    THEN With(findRoute(R, parent.index), LAMBDA found :
              IF ~found.found THEN [R EXCEPT !.err = "no_parent"]
              ELSE registerRoute(R, id, found.route))
    ELSE With(registerRoute(R, id, 0), LAMBDA registered :
              IF registered.err # "" THEN registered
              ELSE [registered EXCEPT !.routes = Append(@, id)])

AddRoute(id, parent) ==
    /\ Len(regLog) < MaxAdds
    /\ \E R \in {addRoute(Registry, id, parent)} :
           /\ routeObj' = R.objs
           /\ namedRoutes' = R.named
           /\ pathRoutes' = R.paths
           /\ dynamicRoutes' = R.dyn
           /\ parentRoute' = R.parent
           /\ routes' = R.routes
           /\ regLog' = Append(regLog, AddCall(id, parent, R.err))
    /\ removal' = [removal EXCEPT !.set = FALSE]
    /\ lookup' = NoLookup
    /\ UNCHANGED <<navVars, viewVars, window>>

\* the route a removeRoute call resolves and its descendants, by the
\* children lists
RECURSIVE Family(_, _)
Family(R, id) ==
    LET kids == {R.objs[id].children[i] : i \in DOMAIN R.objs[id].children}
    IN  {id} \cup UNION {Family(R, c) : c \in kids}

\* removeRoute(index)
RemoveRoute(index) ==
    /\ removal.count < MaxRemoves
    /\ \E m \in {findRoute(Registry, index)} :
       \E R \in {removeRoute(Registry, index, TRUE)} :
           /\ routeObj' = R.objs
           /\ namedRoutes' = R.named
           /\ pathRoutes' = R.paths
           /\ dynamicRoutes' = R.dyn
           /\ parentRoute' = R.parent
           /\ routes' = R.routes
           /\ removal' = [count |-> removal.count + 1, set |-> TRUE, index |-> index,
                          route |-> IF m.found THEN m.route ELSE 0,
                          family |-> IF m.found THEN Family(Registry, m.route) ELSE {},
                          routes |-> routes]
    /\ lookup' = NoLookup
    /\ UNCHANGED <<regLog, navVars, viewVars, window>>

\* matchRoute(path) for a path callers pass or the path of a registered route
MatchRoute(index) ==
    /\ \E m \in {matchRoute(Registry, index)} :
           lookup' = [set |-> TRUE, kind |-> "path", id |-> "", index |-> index, found |-> m.found,
                      route |-> m.route, hasParams |-> m.hasParams, params |-> m.params]
    /\ UNCHANGED <<routeObj, namedRoutes, pathRoutes, dynamicRoutes, parentRoute, routes,
                   regLog, removal, navVars, viewVars, window>>

\* matchRoute(mergePathParams(route.path, {id})) for the route named items
MatchGenerated(id) ==
    /\ Has(namedRoutes, "items")
    /\ \E made \in {mergePathParams(routeObj[namedRoutes["items"]].path, {<<"id", id>>})} :
       \E index \in {IndexOf(made.path.segs)} :
       \E m \in {matchRoute(Registry, index)} :
           /\ ~made.err
           /\ lookup' = [set |-> TRUE, kind |-> "generated", id |-> id, index |-> index,
                         found |-> m.found, route |-> m.route, hasParams |-> m.hasParams,
                         params |-> m.params]
    /\ UNCHANGED <<routeObj, namedRoutes, pathRoutes, dynamicRoutes, parentRoute, routes,
                   regLog, removal, navVars, viewVars, window>>

\* the paths of the routes in the static path map, as callers write them
RegisteredPaths ==
    {IndexOf(PathTexts(routeObj[pathRoutes[key]].path)) : key \in DOMAIN pathRoutes}

RegNext ==
    \/ \E id \in AddableRoutes :
          \E parent \in (IF id \in ChildRoutes THEN AddParents ELSE {NoParent}) :
              AddRoute(id, parent)
    \/ \E index \in RemoveIndexes : RemoveRoute(index)

MatchNext ==
    \/ \E id \in MatchedRoutes : AddRoute(id, NoParent)
    \/ \E index \in ProbeIndexes \cup RegisteredPaths : MatchRoute(index)
    \/ \E id \in Ids : MatchGenerated(id)

SpecMatch == Init /\ [][MatchNext]_vars

\* routes added, routes removed and paths looked up where several dynamic
\* routes have the same shape
OrderRoutes == {3, 34, 35}
OrderRemovals == {NameIndex("user"), NameIndex("uk"), NameIndex("uz")}
OrderProbes ==
    {PathIndex(<<"u", "42">>), PathIndex(<<"U", "7">>), SuffixIndex(<<"u", "42">>, ".html"),
     PathIndex(<<"u">>), PathIndex(<<"a">>)}

OrderNext ==
    \/ \E id \in OrderRoutes : AddRoute(id, NoParent)
    \/ \E index \in OrderRemovals : RemoveRoute(index)
    \/ \E index \in OrderProbes : MatchRoute(index)

SpecOrder == Init /\ [][OrderNext]_vars

SpecReg == Init /\ [][RegNext]_vars

\* the steps of the engine, with at most limit navigate() calls made
NavStep(limit) ==
    \/ \E target \in NavTargets, isReplace \in BOOLEAN :
          \E fnResult \in CallbackResults(target) :
              taskCounter < limit /\ Navigate(target, isReplace, fnResult)
    \/ \E delta \in GoDeltas : (GoStarts(delta) => taskCounter < limit) /\ Go(delta)
    \/ \E t \in DOMAIN tasks : GoThen(t)
    \/ \E t \in DOMAIN tasks, outcome \in GuardResults :
          \E redirect \in GuardTargets(outcome) : GuardResolve(t, outcome, redirect)

NavNext == NavStep(MaxTasks)

Spec == Init /\ [][NavNext]_vars

(***************************************************************************)
(* The engine with a nested route table and its views: RouterView reports  *)
(* renders, an adapter calls completeNavigation itself.                    *)
(***************************************************************************)
ViewRoutes == <<1, 2, 3, 4, 5, 6, 26, 29>>
ViewRegistry == [setupRoutes(EmptyRegistry, ViewRoutes) EXCEPT !.routes = ViewRoutes]

\* the targets callers push in the nested table
ViewTargets ==
    { Target(PathIndex(<<"a">>), "", {}, {}, FALSE),
      Target(PathIndex(<<"u", "42">>), "", {}, {}, FALSE),
      Target(PathIndex(<<"sh">>), "", {}, {}, FALSE),
      Target(PathIndex(<<"sh", "own">>), "", {}, {}, FALSE),
      Target(NameIndex("page"), "", {}, {}, FALSE),
      Target(PathIndex(<<"gr", "leaf">>), "", {}, {}, FALSE),
      Target(PathIndex(<<"gr">>), "", {}, {}, FALSE),
      Target(NameIndex("bare"), "", {}, {}, FALSE),
      Target(PathIndex(<<"b">>), "h", {<<"q", "1">>}, {}, FALSE),
      Target(SuffixIndex(<<"a">>, ".html"), "", {}, {}, FALSE) }

\* the data an adapter passes to completeNavigation: none, or a Location
CompleteData ==
    {NoLocation} \cup {Pending(createRouteLocation(ViewRegistry, target).loc) :
                          target \in {Target(PathIndex(<<"b">>), "", {}, {}, FALSE)}}

\* the nesting levels at which a RouterView stands, and the view names
ViewLevels == {0, 1}
ViewNames == {"default", "side"}

InitView ==
    /\ routeObj = ViewRegistry.objs
    /\ namedRoutes = ViewRegistry.named
    /\ pathRoutes = ViewRegistry.paths
    /\ dynamicRoutes = ViewRegistry.dyn
    /\ parentRoute = ViewRegistry.parent
    /\ routes = ViewRegistry.routes
    /\ regLog = <<>>
    /\ removal = NoRemoval
    /\ lookup = NoLookup
    /\ missing = FALSE
    /\ taskCounter = 0
    /\ currentTaskId = 0
    /\ pendingReplace = NoLocation
    /\ pendingPush = NoLocation
    /\ current = InitialLocation
    /\ history = <<LiveEntry>>
    /\ currentIndex = 0
    /\ pendingGo = -1
    /\ tasks = <<>>
    /\ result = NoResult
    /\ writes = 0
    /\ marks = 0
    /\ lastGo = NoGo
    /\ viewRender = NoRender
    /\ lastCall = NoCall
    /\ window = NoWindow

\* what a direct call remembers of the engine as it found it
CallOf(op, threw, data) ==
    [op |-> op, threw |-> threw, data |-> data, query |-> {}, hash |-> "",
     before |-> Snapshot, render |-> viewRender,
     taskCounter |-> taskCounter, tasks |-> Len(tasks),
     guards |-> [t \in DOMAIN tasks |-> tasks[t].guards], count |-> lastCall.count + 1]

\* completeNavigation(data) called by an adapter
CompleteNavigation(data) ==
    \E M \in {completeNavigation(MemState, data)} :
        /\ lastCall.count < MaxCalls
        /\ lastCall' = CallOf("completeNavigation", M.err # "", data)
        /\ viewRender' = M.render
        /\ current' = M.current
        /\ pendingReplace' = M.pendingReplace
        /\ pendingPush' = M.pendingPush
        /\ lastGo' = NoGo
        /\ UNCHANGED <<regVars, window, missing, taskCounter, currentTaskId, history, currentIndex,
                       pendingGo, tasks, result, writes, marks>>

\* updateQuery(query) on the live Location loc, keeping the fullPath it had
updateQuery_StaleFullPath(loc, query) ==
    IF ~isDeepEqual(loc.query, query) THEN [loc EXCEPT !.query = query] ELSE loc

\* updateQuery(query) on the live Location loc
updateQuery(loc, query) ==
    IF ~isDeepEqual(loc.query, query)
    THEN [loc EXCEPT !.query = query,
                     !.fullPath = makeFullPath(loc.path, query, loc.hash, loc.suffix)]
    ELSE loc

\* updateHash(hash) on the live Location loc
updateHash(loc, hash) ==
    With(formatHash(hash), LAMBDA newHash :
        IF newHash # loc.hash
        THEN [loc EXCEPT !.hash = newHash,
                         !.fullPath = makeFullPath(loc.path, loc.query, newHash, loc.suffix)]
        ELSE loc)

\* the queries and hashes callers pass to updateQuery and updateHash
UpdateQueries == {{}, {<<"q", "1">>}, {<<"q", "2">>}}
UpdateHashes == {"", "h", "#h", "#g"}

\* router.updateQuery(query)
UpdateQuery(query) ==
    /\ lastCall.count < MaxCalls
    /\ lastCall' = [CallOf("updateQuery", FALSE, NoLocation) EXCEPT !.query = query]
    /\ current' = updateQuery(current, query)
    /\ lastGo' = NoGo
    /\ UNCHANGED <<regVars, window, missing, taskCounter, currentTaskId, pendingReplace, pendingPush,
                   history, currentIndex, pendingGo, tasks, result, writes, marks, viewRender>>

\* router.updateHash(hash)
UpdateHash(hash) ==
    /\ lastCall.count < MaxCalls
    /\ lastCall' = [CallOf("updateHash", FALSE, NoLocation) EXCEPT !.hash = hash]
    /\ current' = updateHash(current, hash)
    /\ lastGo' = NoGo
    /\ UNCHANGED <<regVars, window, missing, taskCounter, currentTaskId, pendingReplace, pendingPush,
                   history, currentIndex, pendingGo, tasks, result, writes, marks, viewRender>>

\* RouterView.isLastView of the view at nesting level index with name
isLastView(index, name) == index = Len(current.matched) - 1 /\ name = "default"

\* RouterView.onMounted / onUpdated of the view at level index: the last view
\* calls _completeViewRender, whose closure calls the after-guard
ViewRendered(index, name) ==
    /\ viewRender.fired < MaxRenders
    /\ lastCall' = Forgotten
    /\ viewRender' = IF isLastView(index, name) /\ viewRender.set
                     THEN [viewRender EXCEPT !.fired = @ + 1,
                                             !.guard = onAfterEach(Registry, current)]
                     ELSE viewRender
    /\ lastGo' = NoGo
    /\ UNCHANGED <<regVars, window, navVarsButGo>>

ViewNext ==
    \/ \E target \in ViewTargets :
          taskCounter < MaxTasks /\ Navigate(target, FALSE, "target")
    \/ \E t \in DOMAIN tasks, outcome \in {"continue", "false"} :
          GuardResolve(t, outcome, GuardRedirect)
    \/ \E data \in CompleteData : CompleteNavigation(data)
    \/ \E index \in ViewLevels, name \in ViewNames : ViewRendered(index, name)
    \/ \E query \in UpdateQueries : UpdateQuery(query)
    \/ \E hash \in UpdateHashes : UpdateHash(hash)

SpecView == InitView /\ [][ViewNext]_vars

(***************************************************************************)
(* The in-memory adapter with a history: the engine after a series of      *)
(* pushes, each awaited and let through by the guard.                      *)
(***************************************************************************)
\* the memory adapter after construction
NewMemory ==
    [history |-> <<LiveEntry>>, currentIndex |-> 0, pendingGo |-> -1,
     pendingReplace |-> NoLocation, pendingPush |-> NoLocation, current |-> InitialLocation,
     writes |-> 0, marks |-> 0, render |-> NoRender, err |-> "",
     window |-> NoWindow, task |-> 0]

\* the pushes made before the first step, in order
PriorPushes ==
    { <<Target(PathIndex(<<"a">>), "", {}, {}, FALSE), GuardRedirect>>,
      <<Target(SuffixIndex(<<"a">>, ".html"), "", {}, {}, FALSE), GuardRedirect>> }

\* push(targets[1]), ..., push(targets[n]) from engine state E = [mem, tasks,
\* result], each awaited: performNavigation to the guard, the guard
\* continues, the candidate is committed and the promise resolves
RECURSIVE AwaitedPushes(_, _)
AwaitedPushes(E, targets) ==
    IF Len(targets) = 0 THEN E
    ELSE
    With(performNavigation(InitialRegistry, E.mem.current,
                           NewTask(Len(E.tasks) + 1, targets[1], E.mem.current, FALSE),
                           targets[1], FALSE, "target", 1), LAMBDA task :
    With([createNavigateResult([task EXCEPT !.guardResult = "continue"], "success", "")
             EXCEPT !.before = SnapshotOf(E.mem)],  LAMBDA done :
         AwaitedPushes([mem |-> commitNavigation(E.mem, task.to, FALSE),
                        tasks |-> Append(E.tasks, Retired(done)),
                        result |-> done], Tail(targets))))

InitMem ==
    /\ routeObj = InitialRegistry.objs
    /\ namedRoutes = InitialRegistry.named
    /\ pathRoutes = InitialRegistry.paths
    /\ dynamicRoutes = InitialRegistry.dyn
    /\ parentRoute = InitialRegistry.parent
    /\ routes = InitialRegistry.routes
    /\ regLog = <<>>
    /\ removal = NoRemoval
    /\ lookup = NoLookup
    /\ missing \in BOOLEAN
    /\ lastGo = NoGo
    /\ \E pushes \in PriorPushes :
       \E E \in {AwaitedPushes([mem |-> NewMemory, tasks |-> <<>>, result |-> NoResult], pushes)} :
           /\ taskCounter = Len(E.tasks)
           /\ currentTaskId = Len(E.tasks)
           /\ tasks = E.tasks
           /\ result = E.result
           /\ pendingReplace = E.mem.pendingReplace
           /\ pendingPush = E.mem.pendingPush
           /\ current = E.mem.current
           /\ history = E.mem.history
           /\ currentIndex = E.mem.currentIndex
           /\ pendingGo = E.mem.pendingGo
           /\ writes = E.mem.writes
           /\ marks = E.mem.marks
           /\ viewRender = E.mem.render
           /\ lastCall = NoCall
           /\ window = NoWindow

\* MaxTasks further calls after the prior pushes
MemNext == NavStep(Len(CHOOSE pushes \in PriorPushes : TRUE) + MaxTasks)

SpecMem == InitMem /\ [][MemNext]_vars

(***************************************************************************)
(* The adapters of the browser.  The router is constructed on the address  *)
(* of the root path and initialize()d: initializeRouter replaces to the    *)
(* address, the guard lets the navigation through, and the promise         *)
(* resolves.                                                               *)
(***************************************************************************)
\* the window a router of the mode is constructed in
NewWindow(mode) ==
    [mode |-> mode, entries |-> <<[url |-> InitialLocation.fullPath, state |-> NoState]>>,
     cursor |-> 0, events |-> <<>>, moves |-> 0]

\* initializeRouter(): this.replace(this.currentRouteTarget) and, in hash
\* mode, the callback chained on it, which calls super.replaceHistory(res.to)
\* when the address is res.to.fullPath.  HashRouter never calls
\* MemoryRouter.initializeRouter, so its _history starts empty.
Initialized(mode) ==
    With([NewMemory EXCEPT !.window = NewWindow(mode), !.task = 1, !.history = <<>>,
                           !.currentIndex = -1], LAMBDA new :
    With([urlToRouteTarget(Address(new.window)) EXCEPT !.isReplace = TRUE], LAMBDA target :
    With(performNavigation(InitialRegistry, new.current,
                           NewTask(1, target, new.current, FALSE),
                           target, FALSE, "target", 1), LAMBDA task :
    With([createNavigateResult([task EXCEPT !.guardResult = "continue"], "success", "")
             EXCEPT !.before = SnapshotOf(new)], LAMBDA done :
    With(commitNavigation(new, task.to, TRUE), LAMBDA committed :
         [mem |-> IF mode = "hash" /\ Address(new.window) = done.to.fullPath
                  THEN MemoryRouter_updateHistory(committed, done.to, TRUE)
                  ELSE committed,
          tasks |-> <<Retired(done)>>,
          result |-> done])))))

InitHost(mode) ==
    /\ routeObj = InitialRegistry.objs
    /\ namedRoutes = InitialRegistry.named
    /\ pathRoutes = InitialRegistry.paths
    /\ dynamicRoutes = InitialRegistry.dyn
    /\ parentRoute = InitialRegistry.parent
    /\ routes = InitialRegistry.routes
    /\ regLog = <<>>
    /\ removal = NoRemoval
    /\ lookup = NoLookup
    /\ missing \in BOOLEAN
    /\ lastGo = NoGo
    /\ lastCall = NoCall
    /\ \E E \in {Initialized(mode)} :
           /\ taskCounter = 1
           /\ currentTaskId = 1
           /\ tasks = E.tasks
           /\ result = E.result
           /\ pendingReplace = E.mem.pendingReplace
           /\ pendingPush = E.mem.pendingPush
           /\ current = E.mem.current
           /\ history = E.mem.history
           /\ currentIndex = E.mem.currentIndex
           /\ pendingGo = E.mem.pendingGo
           /\ writes = E.mem.writes
           /\ marks = E.mem.marks
           /\ viewRender = E.mem.render
           /\ window = E.mem.window

\* the targets callers pass to push and replace of a router in the browser
HostTargets ==
    { Target(PathIndex(<<"a">>), "", {}, {}, FALSE),
      Target(PathIndex(<<"b">>), "", {}, {}, FALSE) }

\* the addresses the user types: a registered path and one no route matches
UserUrls ==
    { [path |-> [segs |-> <<"b">>, ext |-> ""], query |-> {}, hash |-> ""],
      [path |-> [segs |-> <<"zz">>, ext |-> ""], query |-> {}, hash |-> ""] }

\* `#${res.to.index.slice(1)}`: the index of an unmatched address as an anchor
anchorOf(index) == IF index.segs = <<"zz">> THEN "#zz" ELSE "#"

\* the engine and the window after an adapter step that left M
HostState(M) ==
    /\ history' = M.history
    /\ currentIndex' = M.currentIndex
    /\ pendingGo' = M.pendingGo
    /\ pendingReplace' = M.pendingReplace
    /\ pendingPush' = M.pendingPush
    /\ current' = M.current
    /\ writes' = M.writes
    /\ marks' = M.marks
    /\ viewRender' = M.render
    /\ window' = M.window

\* the user sets the fragment of the address (types it, follows a link)
UserFragment(url) ==
    /\ window.mode = "hash"
    /\ window.moves < MaxEdits
    /\ url # Address(window)
    /\ window' = [navigateFragment(window, url, FALSE, 0) EXCEPT !.moves = @ + 1]
    /\ lastGo' = NoGo
    /\ lastCall' = Forgotten
    /\ UNCHANGED <<regVars, viewRender, navVarsButGo>>

\* HashRouter.onHashChange(event), for the notification at the head of the
\* queue
OnHashChange ==
    /\ window.mode = "hash"
    /\ window.events # <<>>
    /\ lastGo' = NoGo
    /\ lastCall' = [Forgotten EXCEPT !.op = "onHashChange", !.before = Snapshot,
                                     !.taskCounter = taskCounter]
    /\ \E event \in {Head(window.events)} :
       \E W \in {[window EXCEPT !.events = Tail(@)]} :
           IF current.fullPath = Address(W)
           THEN /\ window' = W
                /\ UNCHANGED <<regVars, viewRender, navVarsButGo>>
           ELSE IF pendingReplace.set \/ pendingPush.set
           THEN /\ HostState(MemoryRouter_updateHistory(
                                 [MemState EXCEPT !.window = W],
                                 IF pendingPush.set THEN pendingPush.loc ELSE pendingReplace.loc,
                                 ~pendingPush.set))
                /\ UNCHANGED <<regVars, missing, taskCounter, currentTaskId, tasks, result>>
           ELSE /\ window' = W
                /\ \E target \in {urlToRouteTarget(event.url)} :
                   \E fnResult \in CallbackResults(target) :
                       StartNavigate(target, FALSE, fnResult, -1, event)
                /\ UNCHANGED <<regVars, viewRender, missing, pendingReplace, pendingPush,
                               current, history, currentIndex, pendingGo, writes, marks>>

\* the callback onHashChange chains on its push: cancelled and duplicated are
\* left alone, a success that was not redirected is completed, an unmatched
\* address becomes the anchor of the Location, and every other result puts
\* the address back to res.from.fullPath
OnHashChangeThen(t) ==
    /\ t \in DOMAIN tasks
    /\ tasks[t].pc = "then"
    /\ tasks[t].event.kind = "hashchange"
    /\ tasks' = [tasks EXCEPT ![t] = [NoResult EXCEPT !.id = t, !.pc = "done",
                                                      !.seq = tasks[t].seq]]
    /\ lastGo' = NoGo
    /\ lastCall' = Forgotten
    /\ \E res \in {tasks[t]} :
       LET back(M) == [M EXCEPT !.window = navigateFragment(@, res.from.fullPath, TRUE, 0)]
       IN  HostState(
             CASE res.status \in {"cancelled", "duplicated"} -> MemState
               [] res.status = "success" ->
                      IF ~res.isRedirect THEN completeNavigation(MemState, Pending(res.to))
                      ELSE MemState
               [] res.status = "not_matched" ->
                      back([MemState EXCEPT !.current = updateHash(@, anchorOf(res.to.index))])
               [] OTHER -> back(MemState))
    /\ UNCHANGED <<regVars, missing, taskCounter, currentTaskId, result>>

\* the guard of a navigation settles (the outcomes and targets of GuardResolve)
HostGuard ==
    \E t \in DOMAIN tasks, outcome \in GuardResults :
        \E redirect \in GuardTargets(outcome) : GuardResolve(t, outcome, redirect)

\* push and replace as callers make them, MaxTasks calls after initialize()
HostNavigate ==
    \E target \in HostTargets, isReplace \in BOOLEAN :
        taskCounter < 1 + MaxTasks /\ Navigate(target, isReplace, "target")

HashNext ==
    \/ HostNavigate
    \/ HostGuard
    \/ \E url \in UserUrls : UserFragment(url)
    \/ OnHashChange
    \/ \E t \in DOMAIN tasks : OnHashChangeThen(t)

SpecHash == InitHost("hash") /\ [][HashNext]_vars

\* the user goes back or forward, or RouterHistory.go(delta) calls
\* history.go(delta): the cursor moves and the browser queues a popstate
\* notification with the state of the entry
Traverse(delta) ==
    /\ window.mode = "path"
    /\ window.moves < MaxMoves
    /\ delta # 0
    /\ window.cursor + delta \in 0..(Len(window.entries) - 1)
    /\ \E moved \in {window.cursor + delta} :
           window' = [window EXCEPT
                         !.cursor = moved, !.moves = @ + 1,
                         !.events = Append(@, [kind |-> "popstate",
                                               url |-> window.entries[moved + 1].url,
                                               state |-> window.entries[moved + 1].state,
                                               by |-> 0])]
    /\ lastGo' = NoGo
    /\ lastCall' = Forgotten
    /\ UNCHANGED <<regVars, viewRender, navVarsButGo>>

\* RouterHistory.onPopState(event), for the notification at the head of the
\* queue: replace to the state's index, hash and query, or to the address
\* when the state has no index.  In path mode the callback chained on the
\* promise does nothing.
OnPopState ==
    /\ window.mode = "path"
    /\ window.events # <<>>
    /\ lastGo' = NoGo
    /\ lastCall' = [Forgotten EXCEPT !.op = "onPopState", !.before = Snapshot,
                                     !.taskCounter = taskCounter]
    /\ \E event \in {Head(window.events)} :
       \E W \in {[window EXCEPT !.events = Tail(@)]} :
       \E newTarget \in {IF event.state.set
                         THEN Target(event.state.index, event.state.hash, event.state.query,
                                     {}, TRUE)
                         ELSE [urlToRouteTarget(Address(W)) EXCEPT !.isReplace = TRUE]} :
       \E fnResult \in CallbackResults(newTarget) :
           /\ window' = W
           /\ StartNavigate(newTarget, FALSE, fnResult, -1, event)
    /\ UNCHANGED <<regVars, viewRender, missing, pendingReplace, pendingPush,
                   current, history, currentIndex, pendingGo, writes, marks>>

HistoryNext ==
    \/ HostNavigate
    \/ HostGuard
    \/ \E delta \in {-1, 1} : Traverse(delta)
    \/ OnPopState

SpecHistory == InitHost("path") /\ [][HistoryNext]_vars

(***************************************************************************)
(* Properties of navigate                                                  *)
(***************************************************************************)
\* a promise has settled, and result is what it delivered
Done == result.pc = "done"

\* the last step of the settled call set no marker, wrote no history entry,
\* moved no cursor and patched nothing of the live Location
Untouched == Snapshot = result.before

\* the Location the history adapter holds at its cursor
AtCursor(h, i, live) == Deref(h[i + 1], live)

\* the live Location carries every field of the candidate that patchUpdate copies
PatchedTo(to) == [current EXCEPT !.suffix = to.suffix] = to

\* the last step of the settled call committed its candidate: one marker set,
\* one history call, the entry at the cursor is the candidate, the live
\* Location patched to it
Committed ==
    /\ writes = result.before.writes + 1
    /\ marks = result.before.marks + 1
    /\ AtCursor(history, currentIndex, current) = result.to
    /\ PatchedTo(result.to)

\* C1 (as stated): a navigation that is no longer the newest when its
\* before-guard resolves ends with status cancelled, sets no marker, writes no
\* history and patches nothing.
C1_StaleIsCancelled ==
    (Done /\ result.stale) => (result.status = "cancelled" /\ Untouched)

\* C1 (amended): a navigation that is no longer the newest when its
\* before-guard resolves never commits: it sets no marker, writes no history
\* and patches nothing, and it ends aborted when the guard returned false,
\* exception when the guard threw, cancelled otherwise; whatever commits was the
\* newest navigation when its guard resolved.
C1_StaleNeverCommits ==
    /\ (Done /\ result.stale) =>
          /\ Untouched
          /\ result.status = (CASE result.guardResult = "false" -> "aborted"
                                [] result.guardResult = "throw" -> "exception"
                                [] OTHER -> "cancelled")
    /\ (Done /\ ~Untouched) => (~result.stale /\ result.status = "success")

C1_Witness ==
    Done /\ result.stale /\ result.status = "cancelled" /\ result.before.writes > 0

C3_SameTargetIsDuplicated ==
    (Done /\ ~result.stale
          /\ result.to = AtCursor(result.before.history, result.before.currentIndex,
                                  result.before.current)) =>
        (result.status = "duplicated" /\ result.guards = 0 /\ Untouched)

\* C4: an exception raised while a navigation is processed is caught: the
\* promise does not reject, it delivers status exception with the error, and
\* nothing of the engine is modified.
C4_ExceptionsAreCaught ==
    (Done /\ result.error # "") => (result.status = "exception" /\ Untouched)

\* C5: when the before-guard returns a redirect target (an object or an index
\* string), the result's redirectFrom is the original target and its to the
\* Location of the redirect target; redirectFrom is undefined when nothing
\* redirected.
C5_GuardRedirect ==
    /\ (Done /\ ~result.stale /\ result.status # "rejected"
             /\ (result.redirects > 0 \/ result.guardResult \in {"redirect", "string"})) =>
          /\ result.redirectFrom = [set |-> TRUE, target |-> result.target]
          /\ result.to = createRouteLocation(Registry, result.guardTarget).loc
    /\ (Done /\ result.redirects = 0 /\ ~result.isRedirect
             /\ result.guardResult \notin {"redirect", "string"}) =>
          ~result.redirectFrom.set

\* C6: when the before-guard returns false the navigation ends aborted; no
\* marker is set, no history entry written or replaced, the live Location
\* unchanged.
C6_FalseAborts ==
    (Done /\ result.guardResult = "false") => (result.status = "aborted" /\ Untouched)

C6_Witness ==
    Done /\ result.guardResult = "false" /\ result.status = "aborted" /\ result.before.writes > 0

\* C7: navigating by name to the route /u/{id} without the parameter id fails
\* at path generation with a missing-parameter error; the live Location, the
\* history and the markers are unchanged.
C7_MissingParam ==
    (Done /\ result.target.index = NameIndex("user") /\ result.target.params = {}) =>
        /\ result.error = "missing_param"
        /\ result.status # "success"
        /\ Untouched
        /\ ~pendingPush.set /\ ~pendingReplace.set

C7_Witness ==
    /\ Done /\ result.target.index = NameIndex("user") /\ result.error = "missing_param"
    /\ result.before.writes > 0

\* C8: when the guard has let a navigation that is still the newest continue
\* and its matched chain is empty, it ends not_matched without a history write
\* or a patch if no fallback (missing) is configured, and commits with matched
\* staying empty if one is.
C8_NotMatched ==
    (Done /\ ~result.stale /\ result.guardResult = "continue" /\ Len(result.to.matched) = 0) =>
        IF missing
        THEN result.status = "success" /\ Committed /\ current.matched = <<>>
        ELSE result.status = "not_matched" /\ Untouched

C8_Witness ==
    /\ Done /\ ~result.stale /\ result.guardResult = "continue" /\ Len(result.to.matched) = 0
    /\ ~missing /\ result.status = "not_matched" /\ result.before.writes > 0

\* C9 (as stated): a navigation that ends not_matched has put its target at
\* the address the history adapter holds.
C9_AddressUpdated ==
    (Done /\ result.status = "not_matched") =>
        AtCursor(history, currentIndex, current).index = result.to.index

\* C9 (amended): a navigation ends not_matched only when no fallback is
\* configured, and then the address the history adapter holds is not updated:
\* no entry is written, the cursor and the live Location stay.
C9_AddressKept ==
    (Done /\ result.status = "not_matched") =>
        /\ ~missing
        /\ history = result.before.history
        /\ currentIndex = result.before.currentIndex
        /\ writes = result.before.writes
        /\ current = result.before.current
        /\ AtCursor(history, currentIndex, current).index # result.to.index

C9_Witness ==
    Done /\ result.status = "not_matched" /\ result.guardResult = "continue" /\ writes > 0

(***************************************************************************)
(* Properties of the registry                                              *)
(***************************************************************************)
\* C10: an addRoute call that throws for a name or path collision leaves the
\* name map, the static path map, the dynamic buckets and the root route list
\* as they were before the call.
C10_NoPartialInsert ==
    \A i \in DOMAIN regLog :
        (i = Len(regLog) /\ regLog[i].err \in {"duplicate_name", "duplicate_path"}) =>
            /\ namedRoutes = regLog[i].named
            /\ pathRoutes = regLog[i].paths
            /\ dynamicRoutes = regLog[i].dyn
            /\ routes = regLog[i].routes

\* C11: after removeRoute(index) for a registered route, addressed by path or
\* by name, neither the route nor any of its descendants is left in the name
\* map, the static path map or a dynamic bucket, the route is out of its
\* parent's children (or of the root list), and findRoute finds none of them, by
\* path or by name.
C11_RemovedEverywhere ==
    (removal.set /\ removal.route # 0) =>
        /\ \A id \in removal.family :
              /\ \A name \in DOMAIN namedRoutes : namedRoutes[name] # id
              /\ \A key \in DOMAIN pathRoutes : pathRoutes[key] # id
              /\ \A len \in DOMAIN dynamicRoutes :
                    \A i \in DOMAIN dynamicRoutes[len] : dynamicRoutes[len][i].route # id
              /\ ~findRoute(Registry, IndexOf(PathTexts(routeObj[id].path))).found
              /\ routeObj[id].name # "" => ~findRoute(Registry, NameIndex(routeObj[id].name)).found
        /\ IF Has(parentRoute, removal.route)
           THEN \A i \in DOMAIN routeObj[parentRoute[removal.route]].children :
                    routeObj[parentRoute[removal.route]].children[i] # removal.route
           ELSE \A i \in DOMAIN routes : routes[i] # removal.route

\* a mandatory variable stands after an optional one, left to right
MandatoryAfterOptional(segs) ==
    \E i, j \in DOMAIN segs : i < j /\ segs[i].k = "opt" /\ segs[j].k = "var"

\* C15: addRoute rejects a dynamic path for the order of its variables exactly
\* when a mandatory variable stands after an optional one; a path whose
\* mandatory variables all precede its optional ones, such as /u/{id}/{tab?},
\* is accepted and registered.
C15_OptionalOrder ==
    \A i \in DOMAIN regLog :
        (i = Len(regLog) /\ isVariablePath(RouteSpecs[regLog[i].id].path)
            /\ regLog[i].err \in {"", "optional_order"}) =>
            /\ regLog[i].err = "optional_order" <=>
                  MandatoryAfterOptional(RouteSpecs[regLog[i].id].path)
            /\ regLog[i].err = "" =>
                  /\ Has(pathRoutes, strictPath(routeObj[regLog[i].id].path))
                  /\ \E len \in DOMAIN dynamicRoutes : \E k \in DOMAIN dynamicRoutes[len] :
                         dynamicRoutes[len][k].route = regLog[i].id

(***************************************************************************)
(* Properties of matching                                                  *)
(***************************************************************************)
\* the static routes registered under the path the index spells
StaticRoutesAt(index) ==
    {pathRoutes[key] : key \in {k \in DOMAIN pathRoutes :
        /\ ~isVariablePath(routeObj[pathRoutes[k]].path)
        /\ IndexOf(PathTexts(routeObj[pathRoutes[k]].path)) = index}}

\* some dynamic route's pattern matches the path the index spells
DynamicMatches(index) ==
    \E len \in DOMAIN dynamicRoutes : \E i \in DOMAIN dynamicRoutes[len] :
        RegexExec(dynamicRoutes[len][i].regex,
                  NormalizedTokens(SelectSeq(index.segs, LAMBDA t : t # ""))).ok

\* the path the index spells is a registered one: with its case folded and its
\* suffix split off it is a key of the static path map, or the directory of a
\* registered /index path
SpellsRegistered(index) ==
    LET key == AsLits([i \in DOMAIN index.segs |-> ToLowerCase(index.segs[i])])
    IN  \/ Has(pathRoutes, key)
        \/ Has(pathRoutes, key \o <<L("index")>>)
        \/ key = <<L("index")>> /\ Has(pathRoutes, <<>>)

\* C12: matchRoute of a registered static path returns exactly that route, and
\* matchRoute of a path that is not registered (no registered path is spelled
\* by it, with or without a suffix) and that no dynamic route matches returns
\* no match.
C12_StaticPathsMatch ==
    (lookup.set /\ lookup.kind = "path") =>
        /\ \A id \in StaticRoutesAt(lookup.index) : lookup.found /\ lookup.route = id
        /\ (~SpellsRegistered(lookup.index) /\ ~DynamicMatches(lookup.index)) => ~lookup.found

\* C13: for the dynamic route /items/{id} and every id without "/", the path
\* generated from {id} is matched by the same route with params.id equal to
\* the id.
C13_RoundTrip ==
    (lookup.set /\ lookup.kind = "generated") =>
        /\ lookup.found
        /\ lookup.route = namedRoutes["items"]
        /\ Lookup(lookup.params, "id") = lookup.id

\* C14: the route /o/{b?}/{c?} is matched by /o, /o/x and /o/x/y, and the
\* parameters of the omitted trailing variables are absent (undefined), not the
\* empty string.
C14_TrailingOptionals ==
    (lookup.set /\ lookup.kind = "path" /\ Has(namedRoutes, "opt")
        /\ lookup.index \in {PathIndex(<<"o">>), PathIndex(<<"o", "x">>),
                              PathIndex(<<"o", "x", "y">>)}) =>
        /\ lookup.found
        /\ lookup.route = namedRoutes["opt"]
        /\ Lookup(lookup.params, "b") = (IF Len(lookup.index.segs) >= 2 THEN "x" ELSE "undefined")
        /\ Lookup(lookup.params, "c") = (IF Len(lookup.index.segs) >= 3 THEN "y" ELSE "undefined")


(***************************************************************************)
(* Properties of the in-memory adapter (specification SpecMem)             *)
(***************************************************************************)
\* the delivered result is that of a commit and nothing has been written
\* to the history since
JustCommitted ==
    /\ result.pc = "done"
    /\ result.status = "success"
    /\ writes = result.before.writes + 1

\* C16: when every earlier push, replace and go has been awaited, a committed
\* push places its entry at cursor+1, drops every entry after it and moves
\* the cursor onto it, and a committed replace overwrites the entry at the
\* cursor and leaves the length of the history and the cursor as they were.
C16_PushAndReplace ==
    (JustCommitted /\ result.seq /\ ~result.viaGo) =>
        LET was == result.before
        IN  IF result.cur.isReplace
            THEN /\ currentIndex = was.currentIndex
                 /\ Len(history) = Len(was.history)
                 /\ history[currentIndex + 1] = Entry(result.to)
                 /\ \A i \in 1..Len(history) :
                        i # currentIndex + 1 => history[i] = was.history[i]
            ELSE /\ currentIndex = was.currentIndex + 1
                 /\ Len(history) = currentIndex + 1
                 /\ history[currentIndex + 1] = Entry(result.to)
                 /\ \A i \in 1..currentIndex : history[i] = was.history[i]

\* C17: a go(delta) that navigated and succeeded leaves the cursor on the
\* clamped target with the history as long as it was, and go(-1) made right
\* after the two pushes restores the location the first push committed.
C17_GoMovesCursor ==
    (JustCommitted /\ result.viaGo) =>
        /\ currentIndex = result.goTarget
        /\ Len(history) = Len(result.before.history)
        /\ (result.id = Len(tasks) /\ result.seq /\ result.guards = 1
               /\ result.before.currentIndex = 2 /\ result.goTarget = 1
               /\ result.before.writes = 2) =>
              current = patchUpdate(InitialLocation, result.before.history[2].loc)

\* the last step was a go(delta) and nothing of the engine has changed
GoDidNothing ==
    /\ Snapshot = lastGo.before
    /\ pendingGo = lastGo.pendingGo
    /\ taskCounter = lastGo.taskCounter
    /\ Len(tasks) = lastGo.taskCounter
    /\ result.id <= lastGo.taskCounter

\* cursor + delta of the last go(delta) lies outside [0, length - 1]
GoBeyond ==
    /\ lastGo.set
    /\ \/ lastGo.before.currentIndex + lastGo.delta < 0
       \/ lastGo.before.currentIndex + lastGo.delta > Len(lastGo.before.history) - 1

SixStatuses == {"success", "aborted", "cancelled", "duplicated", "not_matched", "exception"}

\* C19: a navigate() call that settles resolves with one of the six statuses,
\* also when the routes' redirects lead back to where they began (the
\* rejections of a missing parameter and of a throwing redirect callback set
\* aside).
C19_SettlesWithStatus ==
    (result.pc = "done" /\ result.error \notin {"missing_param", "redirect_threw"}) =>
        result.status \in SixStatuses

\* the deepest matched route of a candidate, 0 when it matched none
Deepest(to) == IF Len(to.matched) = 0 THEN 0 ELSE to.matched[Len(to.matched)]

\* C20 as stated: no guard is called with a candidate whose deepest matched
\* route declares a redirect.
C20_NoGuardOnRedirectingRoute ==
    \A t \in DOMAIN tasks :
        tasks[t].pc = "guard" =>
            \/ Deepest(tasks[t].to) = 0
            \/ routeObj[Deepest(tasks[t].to)].redirect.kind = "none"

\* C20, amended: a guard is called with a candidate whose deepest matched
\* route declares a redirect only when that redirect is a callback that
\* returned no target, and a result delivered after a redirect carries the
\* target the caller passed as redirectFrom (no other result carries one).
C20_RedirectBeforeGuard ==
    /\ \A t \in DOMAIN tasks :
           (tasks[t].pc = "guard" /\ Deepest(tasks[t].to) # 0) =>
               \/ routeObj[Deepest(tasks[t].to)].redirect.kind = "none"
               \/ /\ routeObj[Deepest(tasks[t].to)].redirect.kind = "function"
                  /\ tasks[t].declined
    /\ (result.pc = "done" /\ result.status # "rejected") =>
           result.redirectFrom = IF result.isRedirect
                                 THEN [set |-> TRUE, target |-> result.target]
                                 ELSE Undefined

\* the redirect of the deepest matched route was followed, the guard ran once,
\* on the rebuilt candidate, and the navigation committed
C20_Witness ==
    /\ result.pc = "done"
    /\ result.status = "success"
    /\ result.target.index = PathIndex(<<"f">>)
    /\ result.cur.index # result.target.index
    /\ routeObj[Deepest(result.to)].redirect.kind = "none"
    /\ result.isRedirect
    /\ result.redirects = 0
    /\ result.guards = 1
    /\ result.redirectFrom.set

(***************************************************************************)
(* Properties of completeNavigation and the views (specification SpecView) *)
(***************************************************************************)
\* C21: completeNavigation patches the live Location to the data it is given,
\* else to the pending replace value, else to the pending push value, and
\* leaves both markers null; called without data and with no marker set it
\* throws and leaves the live Location and the render callback as they were.
C21_CompleteNavigation ==
    /\ JustCommitted =>
           /\ current = patchUpdate(result.before.current, result.to)
           /\ ~pendingReplace.set /\ ~pendingPush.set
    /\ lastCall.op = "completeNavigation" =>
           IF lastCall.data.set
           THEN /\ ~lastCall.threw
                /\ current = patchUpdate(lastCall.before.current, lastCall.data.loc)
                /\ ~pendingReplace.set /\ ~pendingPush.set
           ELSE IF lastCall.before.pendingReplace \/ lastCall.before.pendingPush
           THEN ~lastCall.threw /\ ~pendingReplace.set /\ ~pendingPush.set
           ELSE /\ lastCall.threw
                /\ current = lastCall.before.current
                /\ viewRender = lastCall.render

\* C22: the after-guard of a committed navigation fires at most once, whatever
\* renders the views report afterwards, and the guard fired is the deepest
\* matched route's afterEnter or else the global afterEach.
C22_AfterGuardOnce ==
    /\ viewRender.fired <= 1
    /\ viewRender.fired > 0 =>
           /\ viewRender.set
           /\ Len(current.matched) > 0 =>
                  viewRender.guard \in {routeObj[Deepest(current)].afterEnter, "afterEach"}

\* the beforeEnter a route object is declared with, before normalizeRoute
Declared(id) == RouteSpecs[id].beforeEnter

\* the nearest of a route and its ancestors, going up the parent index, that
\* declares a beforeEnter; 0 when none does
RECURSIVE NearestGuarded(_)
NearestGuarded(id) ==
    IF id = 0 THEN 0
    ELSE IF Declared(id) # "" THEN id
    ELSE NearestGuarded(IF id \in DOMAIN parentRoute THEN parentRoute[id] ELSE 0)

C23_WitnessOwn ==
    \E t \in DOMAIN tasks :
        /\ tasks[t].pc = "guard"
        /\ tasks[t].guardFn = "ownBefore"

\* the ancestors of a route in the parent index
RECURSIVE AncestorSet(_)
AncestorSet(id) ==
    IF id \notin DOMAIN parentRoute THEN {}
    ELSE {parentRoute[id]} \cup AncestorSet(parentRoute[id])

\* C24: the matched chain of a candidate built from a target is empty exactly
\* when findRoute resolves no route; otherwise its last element is the
\* resolved route and the elements before it are exactly the ancestors of
\* that route that carry a widget, each an ancestor of the next.
C24_MatchedChain ==
    \A t \in DOMAIN tasks :
        (tasks[t].pc = "guard" /\ ~tasks[t].cur.isLoc) =>
            LET m == tasks[t].to.matched
                hit == findRoute(Registry, tasks[t].cur.index)
            IN  /\ (Len(m) = 0) <=> ~hit.found
                /\ hit.found =>
                       /\ m[Len(m)] = hit.route
                       /\ {m[i] : i \in 1..(Len(m) - 1)} =
                              {a \in AncestorSet(hit.route) : routeObj[a].widget}
                       /\ \A i, j \in 1..Len(m) : i < j => m[i] \in AncestorSet(m[j])
                       /\ hit.hasParams =>
                              \A pair \in hit.params : pair \in tasks[t].to.params

\* push('/u/42') against the top-level /u/{id}: matched has one element and
\* params.id is '42'
C24_Witness ==
    \E t \in DOMAIN tasks :
        /\ tasks[t].pc = "guard"
        /\ tasks[t].cur.index = PathIndex(<<"u", "42">>)
        /\ Len(tasks[t].to.matched) = 1
        /\ <<"id", "42">> \in tasks[t].to.params

\* a page nested in a layout with a widget has both in its chain; a page
\* under a group without a widget has the page alone
C24_WitnessNested ==
    \E t, u \in DOMAIN tasks :
        /\ tasks[t].pc = "guard" /\ tasks[u].pc = "guard"
        /\ tasks[t].to.matched = <<namedRoutes["shell"], namedRoutes["page"]>>
        /\ tasks[u].to.matched = <<namedRoutes["leaf"]>>
        /\ namedRoutes["leaf"] \in DOMAIN parentRoute

(***************************************************************************)
(* Properties of the lookup order (specification SpecMatch)                *)
(***************************************************************************)
\* the path looked up last, case folded and without its suffix, and its suffix
LookupKey ==
    AsLits([i \in DOMAIN SelectSeq(lookup.index.segs, LAMBDA t : t # "") |->
               ToLowerCase(SelectSeq(lookup.index.segs, LAMBDA t : t # "")[i])])
LookupSuffix == ToLowerCase(lookup.index.suffix)
LookupEndsWithIndex == Len(LookupKey) > 0 /\ LookupKey[Len(LookupKey)] = L("index")

\* the suffix of the path looked up satisfies the policy of route id, the
\* policy false comparing the path with routePath
Accepted(id, routePath) ==
    validateSuffix(LookupSuffix, routeObj[id].suffix,
                   [segs |-> LookupKey, suffix |-> LookupSuffix], routePath)

\* the static route stored under key, when it accepts the suffix
StaticStage(key) ==
    IF Has(pathRoutes, key)
          /\ Accepted(pathRoutes[key], [segs |-> routeObj[pathRoutes[key]].path, suffix |-> ""])
    THEN {pathRoutes[key]} ELSE {}

\* the positions in the bucket of the segment count whose pattern matches and
\* whose route accepts the suffix
DynamicStage ==
    IF ~Has(dynamicRoutes, Len(LookupKey)) THEN {}
    ELSE {i \in DOMAIN dynamicRoutes[Len(LookupKey)] :
             /\ RegexExec(dynamicRoutes[Len(LookupKey)][i].regex,
                          NormalizedTokens([k \in DOMAIN LookupKey |-> LookupKey[k].v])).ok
             /\ Accepted(dynamicRoutes[Len(LookupKey)][i].route,
                         [segs |-> LookupKey, suffix |-> LookupSuffix])}

\* the implicit index route of the directory looked up
IndexStage ==
    IF LookupSuffix = "" /\ ~LookupEndsWithIndex
    THEN StaticStage(LookupKey \o <<L("index")>>) ELSE {}

\* the root route, for the path /index
RootStage ==
    IF ~(LookupSuffix = "" /\ ~LookupEndsWithIndex) /\ LookupKey = <<L("index")>>
    THEN StaticStage(<<>>) ELSE {}

\* the lookup returned a route of the set, found by a pattern or not
Returned(ids, byPattern) ==
    lookup.found /\ lookup.route \in ids /\ lookup.hasParams = byPattern

\* C25: matchRoute returns the static route of the path when it accepts the
\* suffix, else a dynamic route of the bucket of the segment count that
\* matches and accepts it, else (path without suffix, not ending in /index)
\* the static route <path>/index, else nothing.
C25_ThreeStages ==
    (lookup.set /\ lookup.kind = "path") =>
        IF StaticStage(LookupKey) # {} THEN Returned(StaticStage(LookupKey), FALSE)
        ELSE IF DynamicStage # {}
        THEN Returned({dynamicRoutes[Len(LookupKey)][i].route : i \in DynamicStage}, TRUE)
        ELSE IF IndexStage # {} THEN Returned(IndexStage, FALSE)
        ELSE ~lookup.found

\* C25, amended: as above, with a fourth stage after the implicit index: the
\* path /index, with or without a suffix, is looked up as the root route /.
C25_LookupOrder ==
    (lookup.set /\ lookup.kind = "path") =>
        IF StaticStage(LookupKey) # {} THEN Returned(StaticStage(LookupKey), FALSE)
        ELSE IF DynamicStage # {}
        THEN Returned({dynamicRoutes[Len(LookupKey)][i].route : i \in DynamicStage}, TRUE)
        ELSE IF IndexStage # {} THEN Returned(IndexStage, FALSE)
        ELSE IF RootStage # {} THEN Returned(RootStage, FALSE)
        ELSE ~lookup.found

\* /u/new was looked up with both the static /u/new and the dynamic /u/{id}
\* registered, and the static route was returned
C25_Witness ==
    /\ lookup.set
    /\ lookup.index = PathIndex(<<"u", "new">>)
    /\ Has(namedRoutes, "unew")
    /\ DynamicStage # {}
    /\ lookup.route = namedRoutes["unew"]

\* /items/x was looked up with both /items/{id} and /items/x/index
\* registered, and the dynamic route was returned; /d was looked up and its
\* index route returned
C25_WitnessIndex ==
    /\ lookup.set
    /\ \/ /\ lookup.index = PathIndex(<<"items", "x">>)
          /\ Has(namedRoutes, "xindex") /\ Has(namedRoutes, "items")
          /\ lookup.route = namedRoutes["items"]
       \/ /\ lookup.index = PathIndex(<<"d">>)
          /\ Has(namedRoutes, "dindex")
          /\ lookup.route = namedRoutes["dindex"]

(***************************************************************************)
(* Properties of the order of the dynamic routes (specification SpecOrder) *)
(***************************************************************************)
\* the top-level routes in the order their registration succeeded
Registrations ==
    InitialRoutes \o
    [i \in DOMAIN SelectSeq(regLog, LAMBDA call : call.err = "") |->
        SelectSeq(regLog, LAMBDA call : call.err = "")[i].id]

\* the position of the latest registration of route id
RegisteredAt(id) ==
    CHOOSE i \in DOMAIN Registrations :
        Registrations[i] = id /\ \A j \in DOMAIN Registrations : Registrations[j] = id => j <= i

\* the registered dynamic routes that match the path looked up and accept
\* its suffix
Matching == {dynamicRoutes[Len(LookupKey)][i].route : i \in DynamicStage}

\* C26: when several dynamic routes of the bucket match the path, matchRoute
\* returns the one of them that was registered first, whatever routes were
\* added and removed before.
C26_FirstRegistered ==
    (lookup.set /\ StaticStage(LookupKey) = {} /\ DynamicStage # {}) =>
        /\ lookup.found
        /\ lookup.route \in Matching
        /\ \A id \in Matching : RegisteredAt(lookup.route) <= RegisteredAt(id)

\* a route was removed from a bucket of three matching routes and the path
\* was looked up after; or the first route was removed and added again, and
\* another route is returned
C26_Witness ==
    /\ lookup.set /\ lookup.found
    /\ removal.count > 0
    /\ Cardinality(Matching) >= 2
    /\ Len(regLog) = MaxAdds

\* /u/{id} was removed and registered again behind /u/{k}, which is returned
C26_WitnessReadded ==
    /\ lookup.set /\ lookup.found
    /\ Has(namedRoutes, "uk") /\ Has(namedRoutes, "user")
    /\ lookup.route = namedRoutes["uk"]
    /\ namedRoutes["user"] \in Matching

(***************************************************************************)
(* Properties of the parameters of a match (specification SpecMatch)       *)
(***************************************************************************)
\* the variables of the path of route id, in the order the path declares them
Declaration(id) ==
    [i \in DOMAIN SelectSeq(routeObj[id].path, LAMBDA s : s.k # "lit") |->
        SelectSeq(routeObj[id].path, LAMBDA s : s.k # "lit")[i].v]

\* what the capturing groups of the pattern of route id took of the path
\* looked up, one per variable
Captured(id) ==
    RegexExec(RegexOf(routeObj[id].path),
              NormalizedTokens([k \in DOMAIN LookupKey |-> LookupKey[k].v])).caps

\* C27: the parameters of a dynamic match give the i-th variable of the path
\* the i-th captured value, whatever pattern object the route was added with.
C27_CapturesInDeclarationOrder ==
    (lookup.set /\ lookup.found /\ lookup.hasParams) =>
        \A i \in DOMAIN Declaration(lookup.route) :
            <<Declaration(lookup.route)[i], Captured(lookup.route)[i]>> \in lookup.params

\* the same for the routes added without a pattern object
C27_DefaultPatterns ==
    (lookup.set /\ lookup.found /\ lookup.hasParams
        /\ RouteSpecs[lookup.route].pattern = <<>>) =>
        \A i \in DOMAIN Declaration(lookup.route) :
            <<Declaration(lookup.route)[i], Captured(lookup.route)[i]>> \in lookup.params

(***************************************************************************)
(* Properties of the suffix policy (specification SpecMatch)               *)
(***************************************************************************)
\* the suffix of the path looked up satisfies the suffix policy of route id
SuffixAllowed(id) ==
    CASE routeObj[id].suffix.kind = "any" -> TRUE
      [] routeObj[id].suffix.kind = "exact" -> LookupSuffix = ""
      [] OTHER -> LookupSuffix \in routeObj[id].suffix.allowed

\* the registered dynamic routes whose pattern matches the path looked up
PatternMatches ==
    IF ~Has(dynamicRoutes, Len(LookupKey)) THEN {}
    ELSE {dynamicRoutes[Len(LookupKey)][i].route : i \in
             {i \in DOMAIN dynamicRoutes[Len(LookupKey)] :
                 RegexExec(dynamicRoutes[Len(LookupKey)][i].regex,
                           NormalizedTokens([k \in DOMAIN LookupKey |-> LookupKey[k].v])).ok}}

\* C28: the route matchRoute returns accepts the suffix of the path by its
\* policy; the static route of the path is returned when its policy accepts
\* the suffix, and else a dynamic route is returned when the policy of one
\* whose pattern matches accepts it.
C28_SuffixPolicy ==
    lookup.set =>
        /\ lookup.found => SuffixAllowed(lookup.route)
        /\ (Has(pathRoutes, LookupKey) /\ SuffixAllowed(pathRoutes[LookupKey]))
              => Returned({pathRoutes[LookupKey]}, FALSE)
        /\ (~(Has(pathRoutes, LookupKey) /\ SuffixAllowed(pathRoutes[LookupKey]))
               /\ \E id \in PatternMatches : SuffixAllowed(id))
              => Returned({id \in PatternMatches : SuffixAllowed(id)}, TRUE)

\* the same for the routes whose policy is not false
C28_PoliciesButFalse ==
    (lookup.set /\ \A id \in DOMAIN parentRoute \cup {routes[i] : i \in DOMAIN routes} :
                       routeObj[id].suffix.kind # "exact") => C28_SuffixPolicy

\* the first part for the dynamic routes alone
C28_DynamicRoutes ==
    (lookup.set /\ lookup.found /\ lookup.hasParams) => SuffixAllowed(lookup.route)

(***************************************************************************)
(* Properties of groups without a widget (specification SpecView)          *)
(***************************************************************************)
\* the group /gr, which has a child and no widget, by path and by name
GroupTargets == {PathIndex(<<"gr">>), NameIndex("bare")}

\* C29: a navigation to a group that has children, no widget and no redirect
\* of its own, by path or by name, resolves to a route with a non-empty
\* matched chain and does not end as not_matched.
C29_GroupResolves ==
    /\ (result.pc = "done" /\ result.target.index \in GroupTargets)
          => result.status # "not_matched"
    /\ \A t \in DOMAIN tasks :
          (tasks[t].target.index \in GroupTargets /\ tasks[t].pc = "guard")
              => Len(tasks[t].to.matched) > 0

(***************************************************************************)
(* Properties of updateQuery and updateHash (specification SpecView)       *)
(***************************************************************************)
\* the engine but for the live Location is as the last direct call found it:
\* no task was created, no guard was run, the markers are as they were
OnlyLocationTouched ==
    /\ taskCounter = lastCall.taskCounter
    /\ Len(tasks) = lastCall.tasks
    /\ [t \in DOMAIN tasks |-> tasks[t].guards] = lastCall.guards
    /\ viewRender = lastCall.render
    /\ pendingReplace.set = lastCall.before.pendingReplace
    /\ pendingPush.set = lastCall.before.pendingPush
    /\ \A f \in {"index", "path", "params", "meta", "matched", "suffix"} :
           current[f] = lastCall.before.current[f]

C30_WitnessHash ==
    /\ lastCall.op = "updateHash"
    /\ lastCall.before.current.hash = "#h"
    /\ lastCall.hash \in {"#g", "#h"}

(***************************************************************************)
(* Properties of the live Location (specification SpecView)                *)
(***************************************************************************)
\* C31: the fullPath of the live Location is the address composed from its
\* own path, query, hash and suffix.
C31_FullPathDerivable ==
    current.fullPath = makeFullPath(current.path, current.query, current.hash, current.suffix)

\* the same for a Location that was never navigated to with a suffix
C31_WithoutSuffix ==
    current.index.suffix = "" => C31_FullPathDerivable

\* the fields of a RouteLocation
LocationFields ==
    {"index", "path", "hash", "query", "params", "meta", "matched", "fullPath", "suffix"}

\* C33: after the completeNavigation of a committed navigation every field of
\* the live Location equals the field of the result's to (no adapter or
\* caller has touched the Location directly).
C33_LocationEqualsTo ==
    (JustCommitted /\ lastCall.count = 0) =>
        \A f \in LocationFields : current[f] = result.to[f]

\* the same for every field but suffix
C33_AllButSuffix ==
    (JustCommitted /\ lastCall.count = 0) =>
        \A f \in LocationFields \ {"suffix"} : current[f] = result.to[f]

(***************************************************************************)
(* Properties of the replace flag (specification Spec)                     *)
(***************************************************************************)
\* C34: a redirected navigation commits the way its original target asked
\* for: a redirected replace() through replaceHistory, adding no entry to
\* the history, a redirected push() through pushHistory.
C34_ReplaceFlagKept ==
    (JustCommitted /\ ~result.viaGo /\ result.isRedirect) =>
        /\ result.cur.isReplace = result.target.isReplace
        /\ result.target.isReplace => Len(history) = Len(result.before.history)

\* the same for the redirected push() alone
C34_RedirectedPush ==
    (JustCommitted /\ ~result.viaGo /\ result.isRedirect /\ ~result.target.isReplace) =>
        ~result.cur.isReplace

(***************************************************************************)
(* Properties of the in-memory history (specifications Spec and SpecMem)   *)
(***************************************************************************)
\* C35: no step changes what an entry of the history describes, the entry
\* at the new cursor (the one a commit writes) excepted; this holds for the
\* entry made at initialization too.
C35_EntriesAreSnapshots ==
    [][\A i \in (DOMAIN history) \cap (DOMAIN history') :
          i # currentIndex' + 1 => Deref(history[i], current) = Deref(history'[i], current')]_vars

\* C35, second part: go() back to index 0 from another location is not
\* turned away as a navigation to the location the engine is at.
C35_BackToInitial ==
    (result.pc = "done" /\ result.viaGo /\ result.goTarget = 0
        /\ result.before.current # InitialLocation) => result.status # "duplicated"

\* the same for the entries pushHistory and replaceHistory made
C35_CommittedEntries ==
    [][\A i \in (DOMAIN history) \cap (DOMAIN history') :
          (i # currentIndex' + 1 /\ ~history[i].live) => history[i] = history'[i]]_vars

\* a go() made before the call that settled last is still waiting for its
\* guard
GoSuperseded ==
    \E t \in DOMAIN tasks : t < result.id /\ tasks[t].viaGo /\ tasks[t].pc = "guard"

\* C36: a committed push() or replace() follows the ordinary rule also when
\* it has superseded a go() whose navigation had not resolved: the push
\* writes at cursor+1 and truncates, the replace writes at the cursor.
C36_PendingGoIsTheGosOwn ==
    (JustCommitted /\ ~result.viaGo /\ GoSuperseded) =>
        IF result.cur.isReplace
        THEN /\ currentIndex = result.before.currentIndex
             /\ Len(history) = Len(result.before.history)
        ELSE /\ currentIndex = result.before.currentIndex + 1
             /\ Len(history) = currentIndex + 1

\* the fields by which an entry of the history describes a location
DescribingFields == {"index", "path", "query", "hash", "params", "matched"}

\* C37: the cursor of the in-memory adapter lies within the history, and the
\* entry at the cursor describes the location the live Location describes.
C37_CursorInHistory ==
    /\ 0 <= currentIndex /\ currentIndex < Len(history)
    /\ \A f \in DescribingFields :
           AtCursor(history, currentIndex, current)[f] = current[f]

\* a go() has committed at an entry that pushHistory wrote, with three
\* entries in the history
C37_Witness ==
    /\ JustCommitted /\ result.viaGo
    /\ Len(history) = 3
    /\ currentIndex = 1
    /\ ~history[currentIndex + 1].live

(***************************************************************************)
(* Properties of the three indexes (specification SpecReg)                 *)
(***************************************************************************)
\* the routes the dynamic buckets refer to
Bucketed == UNION {{dynamicRoutes[len][i].route : i \in DOMAIN dynamicRoutes[len]} :
                      len \in DOMAIN dynamicRoutes}

\* the number of records of route id in the bucket of len segments
TimesIn(len, id) ==
    IF ~Has(dynamicRoutes, len) THEN 0
    ELSE Cardinality({i \in DOMAIN dynamicRoutes[len] : dynamicRoutes[len][i].route = id})

\* the buckets a dynamic path belongs in: its length down to its length
\* without its optional variables
BucketsOf(path) ==
    {(IF Len(path) = 0 THEN 1 ELSE Len(path)) - i : i \in 0..optionalVariableCount(path)}

\* C39: every route of the name map is in the path map under its folded
\* path, every record of a bucket refers to a route of the path map, and
\* every dynamic route of the path map has one record in each bucket of its
\* lengths and none in another.
C39_IndexesAgree ==
    /\ \A name \in DOMAIN namedRoutes :
           /\ Has(pathRoutes, strictPath(routeObj[namedRoutes[name]].path))
           /\ pathRoutes[strictPath(routeObj[namedRoutes[name]].path)] = namedRoutes[name]
    /\ \A id \in Bucketed : \E key \in DOMAIN pathRoutes : pathRoutes[key] = id
    /\ \A key \in DOMAIN pathRoutes :
           isVariablePath(routeObj[pathRoutes[key]].path) =>
               \A len \in (DOMAIN dynamicRoutes) \cup BucketsOf(routeObj[pathRoutes[key]].path) :
                   TimesIn(len, pathRoutes[key]) =
                       (IF len \in BucketsOf(routeObj[pathRoutes[key]].path) THEN 1 ELSE 0)

\* the same as long as no call has thrown and no route was removed
C39_WithoutThrowsAndRemovals ==
    ((\A i \in DOMAIN regLog : regLog[i].err = "") /\ removal.count = 0) => C39_IndexesAgree

\* the routes that successful addRoute(route, parent) calls put under the
\* route removed last
AddedUnderRemoved ==
    {regLog[i].id : i \in {i \in DOMAIN regLog :
        /\ regLog[i].parent.set /\ regLog[i].err = ""
        /\ Has(parentRoute, regLog[i].id)
        /\ parentRoute[regLog[i].id] = removal.route}}

\* C40: a route added with addRoute(route, parent) is removed with its
\* parent: after removeRoute(parent) it is in neither the name map, the
\* path map nor a dynamic bucket.
C40_AddedChildRemoved ==
    (removal.set /\ removal.route # 0) =>
        \A id \in AddedUnderRemoved :
            /\ \A name \in DOMAIN namedRoutes : namedRoutes[name] # id
            /\ \A key \in DOMAIN pathRoutes : pathRoutes[key] # id
            /\ id \notin Bucketed

\* a fragment-change notification was just handled that found a pending
\* push or replace marker, the address not being the Location's fullPath
HandledWhilePending ==
    /\ lastCall.op = "onHashChange"
    /\ lastCall.before.pendingPush \/ lastCall.before.pendingReplace
    /\ lastCall.before.current.fullPath # Address(window)

\* C32: in hash mode a fragment-change notification that arrives while a
\* pending marker is set completes the pending navigation (the markers are
\* cleared, completeNavigation has run and no navigation is started), so that
\* no notification a navigate() call caused starts a navigation whose
\* before-guard runs again.
C32_GuardRunsOnce ==
    /\ HandledWhilePending =>
           /\ ~pendingPush.set /\ ~pendingReplace.set
           /\ taskCounter = lastCall.taskCounter
           /\ viewRender = Installed(lastCall.before.current)
    /\ \A t \in DOMAIN tasks :
           (tasks[t].event.kind = "hashchange" /\ tasks[t].event.by # 0) => tasks[t].guards = 0

\* C32, the handling of one notification alone: the markers are cleared,
\* completeNavigation has run and no navigation is started.
C32_PendingCompleted ==
    HandledWhilePending =>
        /\ ~pendingPush.set /\ ~pendingReplace.set
        /\ taskCounter = lastCall.taskCounter
        /\ viewRender = Installed(lastCall.before.current)

\* the navigation a pop notification started was the last to terminate, and
\* neither a navigation nor a notification is outstanding
PopSettled ==
    /\ result.pc = "done"
    /\ result.event.kind = "popstate"
    /\ window.events = <<>>
    /\ \A t \in DOMAIN tasks : tasks[t].pc = "done"

\* C38: in the browser history adapter, once a pop notification has been
\* processed and the navigation it started has terminated, with whatever
\* status, the address of the window is the fullPath of the live Location.
C38_AddressIsFullPath == PopSettled => Address(window) = current.fullPath

\* C38 for the pop navigations that committed with no marker left pending
\* by an earlier call
C38_WhenCommitted ==
    (/\ PopSettled
     /\ result.status = "success"
     /\ ~result.before.pendingReplace /\ ~result.before.pendingPush) =>
        Address(window) = current.fullPath
====
